---- MODULE Spec2Model ----
(***************************************************************************)
(* Verification model of the i915 submission core:                        *)
(*   - gt/intel_context.c : context pin / unpin / create_request, the     *)
(*                          scheduling policy, parent / child binding     *)
(*   - i915_gem_ww.c      : ww transaction backoff                        *)
(*   - i915_irq.c         : gen11 / dg1 top-level interrupt dispatch, the *)
(*                          gen12 hardware error handlers, installing the *)
(*                          handler and runtime pm of the interrupts      *)
(*   - gt/intel_engine_cs.c : engine idle detection                       *)
(*   - selftests/i915_request.c : the request lifecycle the live tests    *)
(*                          drive: add, cancel, await, wait               *)
(*   - gem/i915_gem_wait_user_fence.c : the wait on a user fence          *)
(*   - gem/i915_gem_userptr.c : userptr submit_init against the mmu       *)
(*                          notifier, and the creation ioctl              *)
(* Each subsystem has its own specification over the shared variables;    *)
(* the variables of the other subsystems hold no value in it.             *)
(***************************************************************************)
EXTENDS Integers, Sequences, FiniteSets, TLC

VARIABLES
    ce,     \* struct intel_context: flags, pin_count, pin_mutex, active, ref, pins
    th,     \* per-thread position and locals inside pin / unpin / create_request
    own,    \* what the callers hold: the creation reference, pins not yet undone
    hist,   \* history of the run: counts of allocations, first pins, releases
    tx,     \* struct i915_gem_ww_ctx of each transaction, and where its caller is
    resv,   \* obj->base.resv of each backing object: the transaction holding it
    hw,     \* the interrupt registers of the device
    irq,    \* the top-level interrupt handler: its position and locals
    ev,     \* history of the interrupt events: raised, acknowledged, dispatched
    er,     \* gt->errors, gt->mem_sparing and the history of the error handler
    eng,    \* struct intel_engine_cs: its requests, its ring, the idle queries
    rq,     \* the i915_requests of the live tests, and the calls made on them
    fa,     \* a timeline's requests and the walk of find_active_request
    uf,     \* a wait on a user fence: the call, the location, the task
    pol,    \* the scheduling policy of a context and the calls changing it
    fam,    \* the parallel.* links of the contexts bound as parent and child
    up,     \* a userptr object: its pages, its notifier, the submit_init calls on it
    uc,     \* a userptr object being created by the ioctl, and who else reaches it
    pm      \* installing the interrupt handler, and runtime pm disabling interrupts

ctxVars == <<ce, th, own, hist>>

wwVars == <<tx, resv>>

irqVars == <<hw, irq, ev>>

errVars == <<er>>

engVars == <<eng>>

reqVars == <<rq>>

findVars == <<fa>>

ufVars == <<uf>>
polVars == <<pol>>
famVars == <<fam>>
upVars == <<up>>
ucVars == <<uc>>
pmVars == <<pm>>

vars ==
    <<ce, th, own, hist, tx, resv, hw, irq, ev, er, eng, rq, fa, uf,
      pol, fam, up, uc, pm>>

\* a step of one subsystem leaves the others alone
CtxOnly ==
    UNCHANGED <<wwVars, irqVars, errVars, engVars, reqVars, findVars, ufVars,
                polVars, famVars, upVars, ucVars, pmVars>>
WwOnly ==
    UNCHANGED <<ctxVars, irqVars, errVars, engVars, reqVars, findVars, ufVars,
                polVars, famVars, upVars, ucVars, pmVars>>
IrqOnly ==
    UNCHANGED <<ctxVars, wwVars, errVars, engVars, reqVars, findVars, ufVars,
                polVars, famVars, upVars, ucVars, pmVars>>
ErrOnly ==
    UNCHANGED <<ctxVars, wwVars, irqVars, engVars, reqVars, findVars, ufVars,
                polVars, famVars, upVars, ucVars, pmVars>>
EngOnly ==
    UNCHANGED <<ctxVars, wwVars, irqVars, errVars, reqVars, findVars, ufVars,
                polVars, famVars, upVars, ucVars, pmVars>>
ReqOnly ==
    UNCHANGED <<ctxVars, wwVars, irqVars, errVars, engVars, findVars, ufVars,
                polVars, famVars, upVars, ucVars, pmVars>>
FindOnly ==
    UNCHANGED <<ctxVars, wwVars, irqVars, errVars, engVars, reqVars, ufVars,
                polVars, famVars, upVars, ucVars, pmVars>>
UfOnly ==
    UNCHANGED <<ctxVars, wwVars, irqVars, errVars, engVars, reqVars, findVars,
                polVars, famVars, upVars, ucVars, pmVars>>
PolOnly ==
    UNCHANGED <<ctxVars, wwVars, irqVars, errVars, engVars, reqVars, findVars,
                ufVars, famVars, upVars, ucVars, pmVars>>
FamOnly ==
    UNCHANGED <<ctxVars, wwVars, irqVars, errVars, engVars, reqVars, findVars,
                ufVars, polVars, upVars, ucVars, pmVars>>
UpOnly ==
    UNCHANGED <<ctxVars, wwVars, irqVars, errVars, engVars, reqVars, findVars,
                ufVars, polVars, famVars, ucVars, pmVars>>
UcOnly ==
    UNCHANGED <<ctxVars, wwVars, irqVars, errVars, engVars, reqVars, findVars,
                ufVars, polVars, famVars, upVars, pmVars>>
PmOnly ==
    UNCHANGED <<ctxVars, wwVars, irqVars, errVars, engVars, reqVars, findVars,
                ufVars, polVars, famVars, upVars, ucVars>>

(***************************************************************************)
(* Bounds of the model                                                    *)
(***************************************************************************)
Threads == {1, 2}

\* number of pin / create_request calls of one run that may succeed
MaxPins == 2

\* largest n of one unpin(ce, n) call
MaxSub == 2

\* number of requests submitted to the engine in one run
MaxReqs == 2

\* number of intel_engine_is_idle calls of one run
MaxIdleCalls == 2

\* number of hardware error interrupts of one run
MaxErrIrqs == 2

\* largest value read from SLM_ECC_ERROR_CNTR
MaxSlm == 2

\* number of interrupt events the hardware raises in one run
MaxEvents == 3

(***************************************************************************)
(* Execution context manager: gt/intel_context.c                          *)
(***************************************************************************)

\* errors the callees of __intel_context_do_pin_ww can return
LockErrs == {"EDEADLK", "EINTR"}
PrePinFails == {"none", "ring", "timeline", "state"}

\* struct intel_context after intel_context_create(): zeroed, one reference
intel_context_init(hasState) ==
    [ alloc |-> FALSE, banned |-> FALSE, closed |-> FALSE,
      state |-> hasState,
      pin_count |-> 0, pin_mutex |-> 0,
      active |-> 0, ref |-> 1, freed |-> FALSE,
      ring |-> 0, timeline |-> 0, statepin |-> 0,
      mapped |-> 0, vm_active |-> 0 ]

ThreadIdle ==
    [ pc |-> "idle", kind |-> "none", err |-> "OK", ret |-> "none",
      handoff |-> FALSE, contended |-> FALSE, sub |-> 0,
      bannedAtCall |-> FALSE, closedAtCall |-> FALSE, sawUnalloc |-> FALSE,
      incd |-> FALSE, failpc |-> "none",
      decTo |-> -1, extraRef |-> FALSE ]

HistInit ==
    [ nAlloc |-> 0, nFirstPin |-> 0, nRelease |-> 0,
      nPinOk |-> 0, unpinStarted |-> FALSE,
      overlap |-> FALSE, uaf |-> FALSE ]

\* a context after intel_context_create(), no call on it yet
InitCe(hasState) ==
    /\ ce = intel_context_init(hasState)
    /\ th = [t \in Threads |-> ThreadIdle]
    /\ own = [ownerRef |-> TRUE, pinsHeld |-> 0]
    /\ hist = HistInit

\* intel_context_put(): the last reference frees the context
intel_context_put(c) ==
    IF c.ref = 1 THEN [c EXCEPT !.ref = 0, !.freed = TRUE]
    ELSE [c EXCEPT !.ref = @ - 1]

intel_context_get(c) == [c EXCEPT !.ref = @ + 1]

\* intel_context_pre_pin(): pin the ring, the timeline and (if any) the state
\* image; a failure at one stage unwinds the stages already done.
intel_context_pre_pin(c, fail) ==
    LET c1 == [c EXCEPT !.ring = @ + 1]
        c2 == [c1 EXCEPT !.timeline = @ + 1]
        c3 == [c2 EXCEPT !.statepin = @ + 1]
        err_ring(x) == [x EXCEPT !.ring = @ - 1]
        err_timeline(x) == err_ring([x EXCEPT !.timeline = @ - 1])
    IN  IF fail = "ring" THEN c
        ELSE IF fail = "timeline" THEN err_ring(c1)
        ELSE IF ~c.state THEN c2
        ELSE IF fail = "state" THEN err_timeline(c2)
        ELSE c3

\* intel_context_post_unpin()
intel_context_post_unpin(c) ==
    [c EXCEPT !.statepin = IF c.state THEN @ - 1 ELSE @,
              !.timeline = @ - 1,
              !.ring = @ - 1]

\* __intel_context_active(): first acquire of ce->active
intel_context_active(c) ==
    [intel_context_get(c) EXCEPT
        !.ring = @ + 1,
        !.timeline = @ + 1,
        !.statepin = IF c.state THEN @ + 1 ELSE @,
        !.vm_active = @ + 1]

\* __intel_context_retire(): last release of ce->active
intel_context_retire(c) ==
    intel_context_put(
        intel_context_post_unpin([c EXCEPT !.vm_active = @ - 1]))

\* i915_active_acquire(&ce->active): the 0 -> 1 acquire runs the active callback
i915_active_acquire(c) ==
    IF c.active = 0 THEN [intel_context_active(c) EXCEPT !.active = 1]
    ELSE [c EXCEPT !.active = @ + 1]

\* i915_active_release(&ce->active): the 1 -> 0 release runs the retire callback
i915_active_release(c) ==
    IF c.active = 1 THEN intel_context_retire([c EXCEPT !.active = 0])
    ELSE [c EXCEPT !.active = @ - 1]

\* mutant: a failure of ce->ops->pre_pin returns without the unwinding of
\* intel_context_pre_pin
PinExitPath_NoCtxUnpin(c, from, handoff) ==
    LET c1 == IF from = "err_release" THEN i915_active_release(c) ELSE c
        c2 == IF from \in {"err_release", "err_post_unpin"} /\ ~handoff
              THEN [c1 EXCEPT !.mapped = @ - 1] ELSE c1
    IN  IF from = "err_ctx_unpin" THEN c2 ELSE intel_context_post_unpin(c2)


\* lines 276-290 of __intel_context_do_pin_ww: the exit path entered at
\* label `from` (err_release, err_post_unpin or err_ctx_unpin)
PinExitPath(c, from, handoff) ==
    LET c1 == IF from = "err_release" THEN i915_active_release(c) ELSE c
        c2 == IF from \in {"err_release", "err_post_unpin"} /\ ~handoff
              THEN [c1 EXCEPT !.mapped = @ - 1] ELSE c1
    IN  intel_context_post_unpin(c2)

\* a thread's step that touches *ce while ce is freed is a use after free
Deref(h) == [h EXCEPT !.uaf = @ \/ ce.freed]

InPinCall(t) == th[t].kind \in {"pin", "create_request"}

(* ---- caller: intel_context_pin() -> __intel_context_do_pin(), or ------ *)
(* ---- intel_context_create_request()                              ------ *)
PinCall(t, k) ==
    /\ th[t].pc = "idle"
    /\ own.ownerRef
    /\ hist.nPinOk + Cardinality({u \in Threads : InPinCall(u)}) < MaxPins
    /\ th' = [th EXCEPT ![t] = [ThreadIdle EXCEPT
                !.pc = "pin_start", !.kind = k,
                !.bannedAtCall = ce.banned, !.closedAtCall = ce.closed]]
    /\ hist' = [hist EXCEPT !.overlap = @ \/ hist.unpinStarted]
    /\ UNCHANGED <<ce, own>>
    /\ CtxOnly

\* __intel_context_do_pin_ww() line 209: test CONTEXT_ALLOC_BIT
PinStart(t) ==
    /\ th[t].pc = "pin_start"
    /\ th' = [th EXCEPT ![t].pc = IF ce.alloc THEN "lock_objs" ELSE "as_lock",
                        ![t].err = "OK", ![t].handoff = FALSE]
    /\ UNCHANGED <<ce, own, hist>>
    /\ CtxOnly

\* intel_context_alloc_state(): mutex_lock_interruptible(&ce->pin_mutex)
AllocStateLock(t) ==
    /\ th[t].pc = "as_lock"
    /\ \/ /\ ce.pin_mutex = 0
          /\ ce' = [ce EXCEPT !.pin_mutex = t]
          /\ th' = [th EXCEPT ![t].pc = "as_body"]
       \/ /\ ce' = ce
          /\ th' = [th EXCEPT ![t].pc = "ww_ret", ![t].err = "ERESTARTSYS",
                              ![t].failpc = "as_lock"]
    /\ UNCHANGED <<own, hist>>
    /\ CtxOnly

\* mutant: the ALLOC bit is not tested again under pin_mutex
AllocStateBody_NoRecheck(t) ==
    /\ th[t].pc = "as_body"
    /\ IF ce.banned
       THEN /\ ce' = [ce EXCEPT !.pin_mutex = 0]
            /\ th' = [th EXCEPT ![t].pc = "ww_ret", ![t].err = "EIO",
                                ![t].failpc = "as_body",
                                ![t].sawUnalloc = TRUE]
            /\ hist' = hist
       ELSE /\ ce' = [ce EXCEPT !.pin_mutex = 0, !.alloc = TRUE]
            /\ th' = [th EXCEPT ![t].pc = "lock_objs", ![t].sawUnalloc = TRUE]
            /\ hist' = [hist EXCEPT !.nAlloc = @ + 1]
    /\ UNCHANGED own
    /\ CtxOnly

\* mutant: a banned context is allocated like any other
AllocStateBody_NoBanChk(t) ==
    /\ th[t].pc = "as_body"
    /\ IF ce.alloc
       THEN /\ ce' = [ce EXCEPT !.pin_mutex = 0]
            /\ th' = [th EXCEPT ![t].pc = "lock_objs"]
            /\ hist' = hist
       ELSE /\ ce' = [ce EXCEPT !.pin_mutex = 0, !.alloc = TRUE]
            /\ th' = [th EXCEPT ![t].pc = "lock_objs", ![t].sawUnalloc = TRUE]
            /\ hist' = [hist EXCEPT !.nAlloc = @ + 1]
    /\ UNCHANGED own
    /\ CtxOnly

\* intel_context_alloc_state(): the section under pin_mutex
AllocStateBody(t) ==
    /\ th[t].pc = "as_body"
    /\ IF ce.alloc
       THEN /\ ce' = [ce EXCEPT !.pin_mutex = 0]
            /\ th' = [th EXCEPT ![t].pc = "lock_objs"]
            /\ hist' = hist
       ELSE IF ce.banned
       THEN /\ ce' = [ce EXCEPT !.pin_mutex = 0]
            /\ th' = [th EXCEPT ![t].pc = "ww_ret", ![t].err = "EIO",
                                ![t].failpc = "as_body",
                                ![t].sawUnalloc = TRUE]
            /\ hist' = hist
       ELSE \/ /\ ce' = [ce EXCEPT !.pin_mutex = 0, !.alloc = TRUE]
               /\ th' = [th EXCEPT ![t].pc = "lock_objs",
                                   ![t].sawUnalloc = TRUE]
               /\ hist' = [hist EXCEPT !.nAlloc = @ + 1]
            \/ /\ ce' = [ce EXCEPT !.pin_mutex = 0]
               /\ th' = [th EXCEPT ![t].pc = "ww_ret", ![t].err = "ENOMEM",
                                   ![t].failpc = "as_body",
                                   ![t].sawUnalloc = TRUE]
               /\ hist' = hist
    /\ UNCHANGED own
    /\ CtxOnly

\* lines 221-229: i915_gem_object_lock() of hwsp, ring and state under the
\* ww context (the outcome of the dma-resv locks is an input here), then
\* intel_context_pre_pin(ce, ww)
PinLockAndPrePin(t) ==
    /\ th[t].pc = "lock_objs"
    /\ \/ \E e \in LockErrs :
            /\ ce' = ce
            /\ th' = [th EXCEPT ![t].pc = "ww_ret", ![t].err = e,
                                ![t].failpc = "lock_objs",
                                ![t].contended = (e = "EDEADLK")]
       \/ \E fail \in PrePinFails :
            /\ ce' = intel_context_pre_pin(ce, fail)
            /\ IF fail = "none" \/ (fail = "state" /\ ~ce.state)
               THEN th' = [th EXCEPT ![t].pc = "ops_pre_pin"]
               ELSE \E e \in {"ENOMEM", "EDEADLK"} :
                      th' = [th EXCEPT ![t].pc = "ww_ret", ![t].err = e,
                                       ![t].failpc = "pre_pin",
                                       ![t].contended = (e = "EDEADLK")]
    /\ UNCHANGED <<own, hist>>
    /\ CtxOnly

\* line 231: ce->ops->pre_pin(ce, ww, &vaddr)
PinOpsPrePin(t) ==
    /\ th[t].pc = "ops_pre_pin"
    /\ \/ /\ ce' = [ce EXCEPT !.mapped = @ + 1]
          /\ th' = [th EXCEPT ![t].pc = "active_acquire"]
       \/ /\ ce' = PinExitPath(ce, "err_ctx_unpin", FALSE)
          /\ th' = [th EXCEPT ![t].pc = "ww_ret", ![t].err = "ENOMEM",
                              ![t].failpc = "ops_pre_pin"]
    /\ UNCHANGED <<own, hist>>
    /\ CtxOnly

\* line 235: i915_active_acquire(&ce->active)
PinActiveAcquire(t) ==
    /\ th[t].pc = "active_acquire"
    /\ \/ /\ ce' = i915_active_acquire(ce)
          /\ th' = [th EXCEPT ![t].pc = "mutex_lock"]
       \/ /\ ce' = PinExitPath(ce, "err_post_unpin", FALSE)
          /\ th' = [th EXCEPT ![t].pc = "ww_ret", ![t].err = "ENOMEM",
                              ![t].failpc = "active_acquire"]
    /\ UNCHANGED <<own, hist>>
    /\ CtxOnly

\* line 239: mutex_lock_interruptible(&ce->pin_mutex)
PinMutexLock(t) ==
    /\ th[t].pc = "mutex_lock"
    /\ \/ /\ ce.pin_mutex = 0
          /\ ce' = [ce EXCEPT !.pin_mutex = t]
          /\ th' = [th EXCEPT ![t].pc = "closed_chk"]
       \/ /\ ce' = PinExitPath(ce, "err_release", FALSE)
          /\ th' = [th EXCEPT ![t].pc = "ww_ret", ![t].err = "EINTR",
                              ![t].failpc = "mutex_lock"]
    /\ UNCHANGED <<own, hist>>
    /\ CtxOnly

\* mutant: the closed bit is not looked at
PinClosedChk_Skip(t) ==
    /\ th[t].pc = "closed_chk"
    /\ th' = [th EXCEPT ![t].pc = "add_unless"]
    /\ UNCHANGED <<ce, own, hist>>
    /\ CtxOnly

\* line 245: intel_context_is_closed(ce)
PinClosedChk(t) ==
    /\ th[t].pc = "closed_chk"
    /\ IF ce.closed
       THEN th' = [th EXCEPT ![t].pc = "err_unlock", ![t].err = "ENOENT",
                             ![t].failpc = "closed_chk"]
       ELSE th' = [th EXCEPT ![t].pc = "add_unless"]
    /\ UNCHANGED <<ce, own, hist>>
    /\ CtxOnly

\* mutant: every pin takes the first-pin path
PinAddUnless_Always(t) ==
    /\ th[t].pc = "add_unless"
    /\ ce' = ce
    /\ th' = [th EXCEPT ![t].pc = "first_acquire"]
    /\ UNCHANGED <<own, hist>>
    /\ CtxOnly

\* line 250: atomic_add_unless(&ce->pin_count, 1, 0)
PinAddUnless(t) ==
    /\ th[t].pc = "add_unless"
    /\ IF ce.pin_count # 0
       THEN /\ ce' = [ce EXCEPT !.pin_count = @ + 1]
            /\ th' = [th EXCEPT ![t].pc = "err_unlock", ![t].incd = TRUE]
       ELSE /\ ce' = ce
            /\ th' = [th EXCEPT ![t].pc = "first_acquire"]
    /\ UNCHANGED <<own, hist>>
    /\ CtxOnly

\* line 251: intel_context_active_acquire(ce) on the first-pin path
PinFirstAcquire(t) ==
    /\ th[t].pc = "first_acquire"
    /\ \/ /\ ce' = [ce EXCEPT !.active = @ + 1]
          /\ th' = [th EXCEPT ![t].pc = "ops_pin"]
       \/ /\ ce' = ce     \* preallocate failed: acquired and released again
          /\ th' = [th EXCEPT ![t].pc = "err_unlock", ![t].err = "ENOMEM",
                              ![t].failpc = "first_acquire"]
    /\ UNCHANGED <<own, hist>>
    /\ CtxOnly

\* lines 255-265: ce->ops->pin(ce, vaddr); handoff = true
PinOpsPin(t) ==
    /\ th[t].pc = "ops_pin"
    /\ \/ /\ ce' = ce
          /\ th' = [th EXCEPT ![t].pc = "atomic_inc", ![t].handoff = TRUE]
          /\ hist' = [hist EXCEPT !.nFirstPin = @ + 1]
       \/ /\ ce' = i915_active_release(ce)
          /\ th' = [th EXCEPT ![t].pc = "err_unlock", ![t].err = "ENOMEM",
                              ![t].failpc = "ops_pin"]
          /\ hist' = hist
    /\ UNCHANGED own
    /\ CtxOnly

\* mutant: the first pin is handed over without being counted
PinAtomicInc_NoCount(t) ==
    /\ th[t].pc = "atomic_inc"
    /\ ce' = ce
    /\ th' = [th EXCEPT ![t].pc = "err_unlock", ![t].incd = TRUE]
    /\ UNCHANGED <<own, hist>>
    /\ CtxOnly

\* line 267: atomic_inc(&ce->pin_count)
PinAtomicInc(t) ==
    /\ th[t].pc = "atomic_inc"
    /\ ce' = [ce EXCEPT !.pin_count = @ + 1]
    /\ th' = [th EXCEPT ![t].pc = "err_unlock", ![t].incd = TRUE]
    /\ UNCHANGED <<own, hist>>
    /\ CtxOnly

\* line 275, err_unlock: mutex_unlock(&ce->pin_mutex)
PinUnlock(t) ==
    /\ th[t].pc = "err_unlock"
    /\ ce' = [ce EXCEPT !.pin_mutex = 0]
    /\ th' = [th EXCEPT ![t].pc = "err_release"]
    /\ UNCHANGED <<own, hist>>
    /\ CtxOnly

\* lines 277-292: i915_active_release(&ce->active), the rest of the exit
\* path, return err
PinRelease(t) ==
    /\ th[t].pc = "err_release"
    /\ ce' = PinExitPath(ce, "err_release", th[t].handoff)
    /\ th' = [th EXCEPT ![t].pc = "ww_ret"]
    /\ UNCHANGED <<own, hist>>
    /\ CtxOnly

\* mutant: -EDEADLK is handed to the caller like any other error
RetryDecision_NoRetry(err) == "return"

\* what the caller's retry loop does with the err of __intel_context_do_pin_ww
\*   "backoff" : err == -EDEADLK, go to i915_gem_ww_ctx_backoff()
\*   "return"  : leave the loop with err
RetryDecision(err) == IF err = "EDEADLK" THEN "backoff" ELSE "return"

\* i915_gem_ww_ctx_backoff(): -EINVAL without a contended object, else the
\* slow lock of the contended object: 0, or -EINTR when interrupted
BackoffResults(contended) == IF contended THEN {"OK", "EINTR"} ELSE {"EINVAL"}

\* lines 302-309 of __intel_context_do_pin and 567-583 of
\* intel_context_create_request: the caller's handling of err. On success
\* create_request goes on to i915_request_create(ce); intel_context_unpin(ce).
PinWwReturn(t) ==
    /\ th[t].pc = "ww_ret"
    /\ IF th[t].err = "OK"
       THEN IF th[t].kind = "pin"
            THEN /\ th' = [th EXCEPT ![t].pc = "returned", ![t].ret = "OK"]
                 /\ own' = [own EXCEPT !.pinsHeld = @ + 1]
                 /\ hist' = [hist EXCEPT !.nPinOk = @ + 1]
            ELSE /\ \E r \in {"OK", "ENOMEM", "EINTR"} :
                      th' = [th EXCEPT ![t].pc = "u_dec", ![t].sub = 1,
                                       ![t].ret = r]
                 /\ hist' = [hist EXCEPT !.nPinOk = @ + 1,
                                         !.unpinStarted = TRUE,
                                         !.overlap = TRUE]
                 /\ own' = own
       ELSE /\ IF RetryDecision(th[t].err) = "backoff"
               THEN \E r \in BackoffResults(th[t].contended) :
                      IF r = "OK"
                      THEN th' = [th EXCEPT ![t].pc = "pin_start",
                                            ![t].contended = FALSE,
                                            ![t].failpc = "retried"]
                      ELSE th' = [th EXCEPT ![t].pc = "returned",
                                            ![t].contended = FALSE,
                                            ![t].err = r, ![t].ret = r,
                                            ![t].failpc = "backoff"]
               ELSE th' = [th EXCEPT ![t].pc = "returned",
                                     ![t].ret = th[t].err]
            /\ UNCHANGED <<own, hist>>
    /\ UNCHANGED ce
    /\ CtxOnly

\* the call is over: the caller has the return value
CallReturn(t) ==
    /\ th[t].pc = "returned"
    /\ th' = [th EXCEPT ![t] = ThreadIdle]
    /\ UNCHANGED <<ce, own, hist>>
    /\ CtxOnly

(* ---- __intel_context_do_unpin(ce, sub) -------------------------------- *)

UnpinCall(t, sub) ==
    /\ th[t].pc = "idle"
    /\ sub \in 1..MaxSub
    /\ sub <= own.pinsHeld
    /\ own' = [own EXCEPT !.pinsHeld = @ - sub]
    /\ th' = [th EXCEPT ![t] = [ThreadIdle EXCEPT
                !.pc = "u_dec", !.kind = "unpin", !.sub = sub]]
    /\ hist' = [hist EXCEPT !.unpinStarted = TRUE,
                            !.overlap = @ \/ \E u \in Threads : InPinCall(u)]
    /\ UNCHANGED ce
    /\ CtxOnly

\* __intel_context_do_unpin returns: to the caller of unpin, or into
\* intel_context_create_request, which returns rq after i915_gem_ww_ctx_fini
UnpinReturn(r) ==
    IF r.kind = "unpin" THEN ThreadIdle ELSE [r EXCEPT !.pc = "returned"]

\* line 315: atomic_sub_and_test(sub, &ce->pin_count)
UnpinSubAndTest(t) ==
    /\ th[t].pc = "u_dec"
    /\ ce' = [ce EXCEPT !.pin_count = @ - th[t].sub]
    /\ th' = [th EXCEPT ![t] =
                IF ce.pin_count - th[t].sub = 0
                THEN [th[t] EXCEPT !.pc = "u_ops", !.decTo = 0]
                ELSE UnpinReturn([th[t] EXCEPT
                                    !.decTo = ce.pin_count - th[t].sub])]
    /\ hist' = Deref(hist)
    /\ UNCHANGED own
    /\ CtxOnly

\* lines 319-320: ce->ops->unpin(ce); ce->ops->post_unpin(ce)
UnpinOps(t) ==
    /\ th[t].pc = "u_ops"
    /\ ce' = [ce EXCEPT !.mapped = @ - 1]
    /\ th' = [th EXCEPT ![t].pc = "u_get"]
    /\ hist' = Deref(hist)
    /\ UNCHANGED own
    /\ CtxOnly

\* mutant: no extra reference is taken before the release
UnpinGet_NoRef(t) ==
    /\ th[t].pc = "u_get"
    /\ ce' = ce
    /\ th' = [th EXCEPT ![t].pc = "u_release"]
    /\ hist' = Deref(hist)
    /\ UNCHANGED own
    /\ CtxOnly

\* line 328: intel_context_get(ce)
UnpinGet(t) ==
    /\ th[t].pc = "u_get"
    /\ ce' = intel_context_get(ce)
    /\ th' = [th EXCEPT ![t].pc = "u_release", ![t].extraRef = TRUE]
    /\ hist' = Deref(hist)
    /\ UNCHANGED own
    /\ CtxOnly

\* line 329: intel_context_active_release(ce)
UnpinActiveRelease(t) ==
    /\ th[t].pc = "u_release"
    /\ ce' = i915_active_release(ce)
    /\ th' = [th EXCEPT ![t].pc = "u_put"]
    /\ hist' = [Deref(hist) EXCEPT !.nRelease = @ + 1]
    /\ UNCHANGED own
    /\ CtxOnly

\* lines 330-331: trace_intel_context_do_unpin(ce) reads *ce, then
\* intel_context_put(ce)
UnpinPut(t) ==
    /\ th[t].pc = "u_put"
    /\ ce' = IF th[t].extraRef THEN intel_context_put(ce) ELSE ce
    /\ th' = [th EXCEPT ![t] = UnpinReturn([th[t] EXCEPT !.extraRef = FALSE])]
    /\ hist' = Deref(hist)
    /\ UNCHANGED own
    /\ CtxOnly

(* ---- the environment of the context ----------------------------------- *)

\* intel_context_ban() -> intel_context_set_banned(ce)
Ban ==
    /\ ~ce.banned /\ ~ce.freed
    /\ ce' = [ce EXCEPT !.banned = TRUE]
    /\ UNCHANGED <<th, own, hist>>
    /\ CtxOnly

\* intel_context_close(): set CONTEXT_CLOSED_BIT
Close ==
    /\ ~ce.closed /\ ~ce.freed
    /\ ce' = [ce EXCEPT !.closed = TRUE]
    /\ UNCHANGED <<th, own, hist>>
    /\ CtxOnly

\* the creator drops its reference; nobody can start a pin after that
OwnerPut ==
    /\ own.ownerRef
    /\ \A t \in Threads : ~InPinCall(t)
    /\ own' = [own EXCEPT !.ownerRef = FALSE]
    /\ ce' = intel_context_put(ce)
    /\ UNCHANGED <<th, hist>>
    /\ CtxOnly

NextCtx ==
    \/ \E t \in Threads, k \in {"pin", "create_request"} : PinCall(t, k)
    \/ \E t \in Threads : PinStart(t)
    \/ \E t \in Threads : AllocStateLock(t)
    \/ \E t \in Threads : AllocStateBody(t)
    \/ \E t \in Threads : PinLockAndPrePin(t)
    \/ \E t \in Threads : PinOpsPrePin(t)
    \/ \E t \in Threads : PinActiveAcquire(t)
    \/ \E t \in Threads : PinMutexLock(t)
    \/ \E t \in Threads : PinClosedChk(t)
    \/ \E t \in Threads : PinAddUnless(t)
    \/ \E t \in Threads : PinFirstAcquire(t)
    \/ \E t \in Threads : PinOpsPin(t)
    \/ \E t \in Threads : PinAtomicInc(t)
    \/ \E t \in Threads : PinUnlock(t)
    \/ \E t \in Threads : PinRelease(t)
    \/ \E t \in Threads : PinWwReturn(t)
    \/ \E t \in Threads : CallReturn(t)
    \/ \E t \in Threads, sub \in 1..MaxSub : UnpinCall(t, sub)
    \/ \E t \in Threads : UnpinSubAndTest(t)
    \/ \E t \in Threads : UnpinOps(t)
    \/ \E t \in Threads : UnpinGet(t)
    \/ \E t \in Threads : UnpinActiveRelease(t)
    \/ \E t \in Threads : UnpinPut(t)
    \/ Ban
    \/ Close
    \/ OwnerPut



(***************************************************************************)
(* ww transactions over the backing objects: i915_gem_ww.c and the locking *)
(* loop of __intel_context_do_pin / __intel_context_do_pin_ww              *)
(***************************************************************************)

\* transactions, numbered in the order of their ww_acquire_init(): a smaller
\* number is an older stamp
Txns == {1, 2, 3}

\* hwsp_ggtt->obj, ring->vma->obj, state->obj
Objs == {"hwsp", "ring", "state"}

\* the orders in which a transaction may come to lock them
LockOrders ==
    {s \in [1..3 -> Objs] : \A i, j \in DOMAIN s : i # j => s[i] # s[j]}

\* i915_gem_ww_ctx_init(): empty obj_list, no contended object
i915_gem_ww_ctx_init(intr) ==
    [ pc |-> "new", order |-> <<>>, idx |-> 0,
      obj_list |-> <<>>, contended |-> "none", contended_evict |-> FALSE,
      intr |-> intr, ret |-> "none", retried |-> FALSE ]

InitTx ==
    /\ tx = [t \in Txns |-> i915_gem_ww_ctx_init(TRUE)]
    /\ resv = [o \in Objs |-> 0]

Range(s) == {s[i] : i \in DOMAIN s}

\* mutant: the objects of the list stay locked
i915_gem_ww_ctx_unlock_all_Keep(r, list) == r

\* i915_gem_ww_ctx_unlock_all(): i915_gem_object_unlock() of every object of
\* ww->obj_list
i915_gem_ww_ctx_unlock_all(r, list) ==
    [o \in Objs |-> IF o \in Range(list) THEN 0 ELSE r[o]]

\* the caller sets up its transaction as __intel_context_do_pin does, with
\* i915_gem_ww_ctx_init(&ww, true), and the objects it is going to lock
WwCtxInit(t, order) ==
    /\ tx[t].pc = "new"
    /\ tx' = [tx EXCEPT ![t] = [i915_gem_ww_ctx_init(TRUE) EXCEPT
                !.pc = "lock", !.order = order, !.idx = 1]]
    /\ UNCHANGED resv
    /\ WwOnly

\* after the lock of order[idx]: on to the next object, or the set is whole
AfterLock(x) ==
    IF x.idx = Len(x.order) THEN [x EXCEPT !.pc = "locked", !.ret = "OK"]
    ELSE [x EXCEPT !.idx = @ + 1]

\* i915_gem_object_lock(obj, ww): the ww mutex of obj->base.resv under ww->ctx.
\*   free            : taken, obj joins ww->obj_list
\*   held by ww      : -EALREADY, turned into 0
\*   held by another : -EDEADLK (ww->contended = obj) when ww holds a lock and
\*                     the holder is older; otherwise the caller sleeps
ObjectLock(t) ==
    /\ tx[t].pc = "lock"
    /\ LET obj == tx[t].order[tx[t].idx]
       IN  \/ /\ resv[obj] = 0
              /\ resv' = [resv EXCEPT ![obj] = t]
              /\ tx' = [tx EXCEPT ![t] =
                          AfterLock([tx[t] EXCEPT
                                        !.obj_list = Append(@, obj)])]
           \/ /\ resv[obj] = t
              /\ resv' = resv
              /\ tx' = [tx EXCEPT ![t] = AfterLock(tx[t])]
           \/ /\ resv[obj] \notin {0, t}
              /\ Len(tx[t].obj_list) > 0
              /\ resv[obj] < t
              /\ resv' = resv
              /\ tx' = [tx EXCEPT ![t].pc = "backoff", ![t].contended = obj]
    /\ WwOnly

\* i915_gem_ww_ctx_backoff() lines 53-60: no contended object is -EINVAL;
\* otherwise every lock of the transaction is dropped
WwBackoffUnlock(t) ==
    /\ tx[t].pc = "backoff"
    /\ IF tx[t].contended = "none"
       THEN /\ tx' = [tx EXCEPT ![t].pc = "fini", ![t].ret = "EINVAL"]
            /\ resv' = resv
       ELSE /\ resv' = i915_gem_ww_ctx_unlock_all(resv, tx[t].obj_list)
            /\ tx' = [tx EXCEPT ![t].pc = "slow_lock", ![t].obj_list = <<>>]
    /\ WwOnly

\* i915_gem_ww_ctx_backoff() lines 62-84: dma_resv_lock_slow[_interruptible]
\* sleeps until the contended object is free and takes it; the caller then
\* retries from its first object
WwBackoffSlowLock(t) ==
    /\ tx[t].pc = "slow_lock"
    /\ resv[tx[t].contended] = 0
    /\ IF tx[t].contended_evict
       THEN /\ resv' = resv
            /\ tx' = [tx EXCEPT ![t].pc = "lock", ![t].idx = 1,
                                ![t].contended = "none", ![t].retried = TRUE]
       ELSE /\ resv' = [resv EXCEPT ![tx[t].contended] = t]
            /\ tx' = [tx EXCEPT ![t].pc = "lock", ![t].idx = 1,
                                ![t].obj_list = Append(@, tx[t].contended),
                                ![t].contended = "none", ![t].retried = TRUE]
    /\ WwOnly

\* a signal reaches a transaction that sleeps interruptibly on a lock held by
\* another: -EINTR from i915_gem_object_lock() or from line 63 of backoff
Signal(t) ==
    /\ tx[t].intr
    /\ \/ /\ tx[t].pc = "lock"
          /\ resv[tx[t].order[tx[t].idx]] \notin {0, t}
       \/ /\ tx[t].pc = "slow_lock"
          /\ resv[tx[t].contended] # 0
    /\ tx' = [tx EXCEPT ![t].pc = "fini", ![t].ret = "EINTR",
                        ![t].contended = "none"]
    /\ UNCHANGED resv
    /\ WwOnly

\* i915_gem_ww_ctx_fini(): unlock everything; the caller returns
WwCtxFini(t) ==
    /\ tx[t].pc \in {"locked", "fini"}
    /\ resv' = i915_gem_ww_ctx_unlock_all(resv, tx[t].obj_list)
    /\ tx' = [tx EXCEPT ![t].pc = IF tx[t].pc = "locked" THEN "done"
                                  ELSE "failed",
                        ![t].obj_list = <<>>,
                        ![t].order = <<>>, ![t].idx = 0]
    /\ WwOnly

\* the steps of transaction t that its own thread takes
TxStep(t) ==
    \/ \E order \in LockOrders : WwCtxInit(t, order)
    \/ ObjectLock(t)
    \/ WwBackoffUnlock(t)
    \/ WwBackoffSlowLock(t)
    \/ WwCtxFini(t)

NextWW ==
    \/ \E t \in Txns, order \in LockOrders : WwCtxInit(t, order)
    \/ \E t \in Txns : ObjectLock(t)
    \/ \E t \in Txns : WwBackoffUnlock(t)
    \/ \E t \in Txns : WwBackoffSlowLock(t)
    \/ \E t \in Txns : WwCtxFini(t)
    \/ \E t \in Txns : Signal(t)

(***************************************************************************)
(* Interrupt dispatch: i915_irq.c                                          *)
(***************************************************************************)

\* gen11: gen11_irq_handler; dg1 and mtl: dg1_irq_handler, mtl with the PICA
\* level behind the PCH (mtp_irq_postinstall)
Plats == {"gen11", "dg1", "mtl"}

\* the second-level sources of gen8_de_irq_handler, in the order it visits them
DeSrcs == <<"DE_MISC", "DE_HPD", "DE_PORT", "DE_PIPE", "SDE">>

IirRegs == Range(DeSrcs) \cup {"PICA", "GU_MISC"}

\* the bits of each identity register that the postinstall code enables
RegBits(r) ==
    CASE r = "DE_MISC" -> {"DE_EDP_PSR"}
      [] r = "DE_HPD"  -> {"DE_TC_HOTPLUG"}
      [] r = "DE_PORT" -> {"DE_PORT_AUX", "DSI_TE"}
      [] r = "DE_PIPE" -> {"PIPE_VBLANK", "PIPE_FLIP_DONE",
                           "PIPE_CRC_DONE", "PIPE_FAULT"}
      [] r = "SDE"     -> {"SDE_GMBUS", "SDE_PICAINTERRUPT"}
      [] r = "PICA"    -> {"PICA_HOTPLUG"}
      [] r = "GU_MISC" -> {"GU_MISC_GSE"}

RegOf(b) == CHOOSE r \in IirRegs : b \in RegBits(r)

\* the events the hardware of a platform can raise: the PICA level exists
\* on mtl only, where it takes the place of DE_HPD; SDE_PICAINTERRUPT is set
\* by the PICA level, never on its own
Raisable(plat) ==
    (UNION {RegBits(r) : r \in IirRegs}) \
        ({"SDE_PICAINTERRUPT"} \cup
         (IF plat = "mtl" THEN RegBits("DE_HPD") ELSE RegBits("PICA")))

\* the bits of the top-level register; a read returns all of them only while
\* the device is in DPC containment (no GT event is raised in this model)
TopBits == {"GT", "DISPLAY", "GU_MISC"}

\* the registers after gen11_irq_postinstall / dg1_irq_postinstall
HwInit(plat) ==
    [ plat |-> plat, dpc |-> FALSE, irqs_enabled |-> TRUE,
      mstr |-> TRUE, disp |-> TRUE, pica_ier |-> (plat = "mtl"),
      iir |-> [r \in IirRegs |-> {}] ]

IrqIdle ==
    [ pc |-> "idle", src |-> 0, master_ctl |-> {}, disp_ctl |-> {},
      iir |-> {}, pica_iir |-> {}, pica_ier |-> FALSE, gu_misc_iir |-> {},
      ret |-> "none", did_disable |-> FALSE, did_enable |-> FALSE ]

EvInit ==
    [ pend |-> {}, taken |-> {}, nraised |-> 0,
      calls |-> <<>>, logs |-> {}, single |-> "none", late |-> FALSE,
      acc |-> {} ]

InitIrq(plat) ==
    /\ hw = HwInit(plat)
    /\ irq = IrqIdle
    /\ ev = EvInit

\* the second-level sources with a bit set in their identity register
DispLevels(h) == {DeSrcs[i] : i \in {j \in DOMAIN DeSrcs : h.iir[DeSrcs[j]] # {}}}

\* the level indications of the top-level register (comment at 2610-2615)
MasterLevels(h) ==
    (IF h.disp /\ DispLevels(h) # {} THEN {"DISPLAY"} ELSE {})
        \cup (IF h.iir["GU_MISC"] # {} THEN {"GU_MISC"} ELSE {})

\* the device interrupts the CPU
IrqAsserted(h) == h.mstr /\ MasterLevels(h) # {}

\* MMIO reads return all ones while the device is in DPC containment
ReadMaster(h) == IF h.dpc THEN TopBits ELSE MasterLevels(h)
ReadDispCtl(h) == IF h.dpc THEN Range(DeSrcs) ELSE DispLevels(h)
ReadIIR(h, r) == IF h.dpc THEN RegBits(r) ELSE h.iir[r]

\* an identity register is write-1-to-clear; writes to a contained device go
\* nowhere
WriteIIR(h, r, v) == IF h.dpc THEN h ELSE [h EXCEPT !.iir[r] = @ \ v]

\* the history of a write-1-to-clear of v: the events it takes from the register
Ack(e, v) == [e EXCEPT !.taken = @ \cup (v \cap e.pend), !.pend = @ \ v]

\* the history of an access to identity register r: a read that returned
\* zero ("zero"), any other read ("rd"), a write ("wr")
Accessed(e, how, r) == [e EXCEPT !.acc = @ \cup {<<how, r>>}]

\* the history of handing the bits v to their handlers
Dispatched(e, v) == [e EXCEPT !.taken = @ \ v]

\* the handler has read identity register r and not yet written it back
InAckWindow(r) ==
    \/ irq.pc = "ack" /\ DeSrcs[irq.src] = r
    \/ irq.pc \in {"pica_rd", "pica_ack"} /\ r = "SDE"
    \/ irq.pc = "pica_ack" /\ r = "PICA"
    \/ irq.pc = "gu_wr" /\ r = "GU_MISC"

\* the hardware raises event b: the bit is latched in its identity register;
\* a PICA bit raises SDE_PICAINTERRUPT when it makes PICA_IIR & PICA_IER
\* non-zero
HwRaise(b) ==
    /\ ev.nraised < MaxEvents
    /\ ~hw.dpc
    /\ b \in Raisable(hw.plat)
    /\ LET r == RegOf(b)
           h1 == [hw EXCEPT !.iir[r] = @ \cup {b}]
       IN  hw' = IF r = "PICA" /\ hw.pica_ier /\ hw.iir["PICA"] = {}
                 THEN [h1 EXCEPT !.iir["SDE"] = @ \cup {"SDE_PICAINTERRUPT"}]
                 ELSE h1
    /\ ev' = [ev EXCEPT !.pend = @ \cup {b}, !.nraised = @ + 1,
                        !.single = "none",
                        !.late = @ \/ InAckWindow(RegOf(b))]
    /\ UNCHANGED irq
    /\ IrqOnly

\* PCIe DPC containment begins on a discrete device
DpcStart ==
    /\ hw.plat # "gen11"
    /\ ~hw.dpc
    /\ hw' = [hw EXCEPT !.dpc = TRUE]
    /\ ev' = [ev EXCEPT !.single = "none"]
    /\ UNCHANGED irq
    /\ IrqOnly

\* mutant: the master is left disabled
gen11_master_intr_enable_Off(h) == h

\* mutant: the tile master is left disabled
dg1_master_intr_enable_Off(h) == h

\* writes to the master registers; a contained device takes no write
gen11_master_intr_enable(h) == IF h.dpc THEN h ELSE [h EXCEPT !.mstr = TRUE]
dg1_master_intr_enable(h) == IF h.dpc THEN h ELSE [h EXCEPT !.mstr = TRUE]
MasterWriteZero(h) == IF h.dpc THEN h ELSE [h EXCEPT !.mstr = FALSE]

master_intr_enable(h) ==
    IF h.plat = "gen11" THEN gen11_master_intr_enable(h)
    ELSE dg1_master_intr_enable(h)

\* every bit set in the whole register file
AllIir(h) == UNION {h.iir[r] : r \in IirRegs}

Call(fn, bits) == [fn |-> fn, bits |-> bits]

CallIf(cond, fn, bits) == IF cond THEN <<Call(fn, bits)>> ELSE <<>>

\* mutant: the value is acknowledged and no handler is called
DeCalls_None(src, iir, pica_iir) == <<>>

\* the handler calls gen8_de_irq_handler makes for the non-zero value iir of
\* one source (pica_iir: the value gen8_read_and_ack_pch_irqs returned)
DeCalls(src, iir, pica_iir) ==
    CASE src = "DE_MISC" -> <<Call("gen8_de_misc_irq_handler", iir)>>
      [] src = "DE_HPD"  -> <<Call("gen11_hpd_irq_handler", iir)>>
      [] src = "DE_PORT" ->
            CallIf("DE_PORT_AUX" \in iir, "dp_aux_irq_handler",
                   {"DE_PORT_AUX"})
            \o CallIf("DSI_TE" \in iir, "gen11_dsi_te_interrupt_handler",
                      {"DSI_TE"})
      [] src = "DE_PIPE" ->
            CallIf("PIPE_VBLANK" \in iir, "intel_handle_vblank",
                   {"PIPE_VBLANK"})
            \o CallIf("PIPE_FLIP_DONE" \in iir, "flip_done_handler",
                      {"PIPE_FLIP_DONE"})
            \o CallIf("PIPE_CRC_DONE" \in iir, "hsw_pipe_crc_irq_handler",
                      {"PIPE_CRC_DONE"})
      [] src = "SDE"     ->
            CallIf(pica_iir # {}, "xelpdp_pica_irq_handler", pica_iir)
            \o <<Call("icp_irq_handler", iir)>>

\* mutant: nothing is logged
DeLogs_None(src, iir) == {}

\* what gen8_de_irq_handler itself logs for the value iir of one source
DeLogs(src, iir) ==
    IF iir = {} THEN {<<"The master control interrupt lied", src>>}
    ELSE IF src = "DE_PORT" /\ iir \cap {"DE_PORT_AUX", "DSI_TE"} = {}
    THEN {<<"Unexpected DE Port interrupt", src>>}
    ELSE IF src = "DE_PIPE" /\ "PIPE_FAULT" \in iir
    THEN {<<"Fault errors on pipe", src>>}
    ELSE {}

\* the handlers that are called for the value of an identity register
HandlersOf(r) ==
    CASE r = "DE_MISC" -> {"gen8_de_misc_irq_handler"}
      [] r = "DE_HPD"  -> {"gen11_hpd_irq_handler"}
      [] r = "DE_PORT" -> {"dp_aux_irq_handler",
                           "gen11_dsi_te_interrupt_handler"}
      [] r = "DE_PIPE" -> {"intel_handle_vblank", "flip_done_handler",
                           "hsw_pipe_crc_irq_handler"}
      [] r = "SDE"     -> {"xelpdp_pica_irq_handler", "icp_irq_handler"}
      [] r = "PICA"    -> {"xelpdp_pica_irq_handler"}
      [] r = "GU_MISC" -> {"gen11_gu_misc_irq_handler"}

\* the bits of iir that a handler call or the fault log has consumed
DeConsumed(src, iir, pica_iir) ==
    LET cs == DeCalls(src, iir, pica_iir)
    IN  UNION {cs[i].bits : i \in DOMAIN cs}
            \cup (IF src = "DE_PIPE" THEN iir \cap {"PIPE_FAULT"} ELSE {})

\* where gen8_de_irq_handler goes after source number i: the next source
\* whose bit is set in its master_ctl argument, or back to its caller
NextSrc(x, i) ==
    LET later == {j \in DOMAIN DeSrcs : j > i /\ DeSrcs[j] \in x.disp_ctl}
    IN  IF later = {} THEN [x EXCEPT !.pc = "disp_on", !.src = 0]
        ELSE [x EXCEPT !.pc = "rd",
                       !.src = CHOOSE j \in later : \A k \in later : j <= k]

\* after the top-level acknowledge: lines 2669-2672 and 2760-2763
AfterMaster(x) ==
    IF "DISPLAY" \in x.master_ctl THEN [x EXCEPT !.pc = "disp_read"]
    ELSE [x EXCEPT !.pc = "gu_rd"]

\* the interrupt is delivered, or the line fires for another reason: lines
\* 2656-2657 and 2714-2715, the intel_irqs_enabled() test
IrqEntry ==
    /\ irq.pc = "idle"
    /\ irq' = IF hw.irqs_enabled
              THEN [IrqIdle EXCEPT !.pc = "mstr_disable"]
              ELSE [IrqIdle EXCEPT !.pc = "ret", !.ret = "IRQ_NONE"]
    /\ ev' = [ev EXCEPT
                !.calls = <<>>, !.logs = {}, !.late = FALSE, !.acc = {},
                !.single = IF /\ hw.irqs_enabled /\ ~hw.dpc
                              /\ hw.mstr /\ hw.disp
                              /\ Cardinality(AllIir(hw)) = 1
                           THEN CHOOSE b \in AllIir(hw) : TRUE
                           ELSE "none"]
    /\ UNCHANGED hw
    /\ IrqOnly

\* gen11_master_intr_disable / dg1_master_intr_disable: write 0 to the master
MstrDisable ==
    /\ irq.pc = "mstr_disable"
    /\ hw' = MasterWriteZero(hw)
    /\ irq' = [irq EXCEPT !.pc = "mstr_read", !.did_disable = TRUE]
    /\ UNCHANGED ev
    /\ IrqOnly

\* a top-level indication the master register may show although the
\* identity register behind it is zero
SpuriousTop == {{}, {"GU_MISC"}}

\* the history of a top-level read that showed the indications spur on top of
\* the real ones
SawTop(e, h, spur) ==
    IF spur \subseteq ReadMaster(h) THEN e ELSE [e EXCEPT !.single = "none"]

\* gen11: line 2616, the sample of the level indications, and lines 2660-2666.
\* dg1: lines 2691-2697, the tile indications, and lines 2718-2721.
MstrRead ==
    /\ irq.pc = "mstr_read"
    /\ \E spur \in SpuriousTop :
          LET ctl == ReadMaster(hw) \cup spur
          IN  IF ctl = {}
              THEN /\ hw' = master_intr_enable(hw)
                   /\ irq' = [irq EXCEPT !.pc = "ret", !.ret = "IRQ_NONE",
                                         !.did_enable = TRUE]
                   /\ ev' = ev
              ELSE IF hw.plat = "gen11"
              THEN /\ hw' = hw
                   /\ irq' = AfterMaster([irq EXCEPT !.master_ctl = ctl])
                   /\ ev' = [SawTop(ev, hw, spur) EXCEPT
                               !.calls = @ \o <<Call("gen11_gt_irq_handler",
                                                     {})>>]
              ELSE /\ hw' = hw
                   /\ irq' = [irq EXCEPT !.pc = "tile_read"]
                   /\ ev' = SawTop(ev, hw, spur)
    /\ IrqOnly

\* dg1_irq_handler lines 2737-2753: the tile's master register is read and
\* written back; all ones means DPC containment and the handler returns
TileRead ==
    /\ irq.pc = "tile_read"
    /\ IF ReadMaster(hw) = TopBits
       THEN /\ irq' = [irq EXCEPT !.pc = "ret", !.ret = "IRQ_HANDLED"]
            /\ ev' = [ev EXCEPT !.logs = @ \cup {<<"DPC containment", "">>}]
       ELSE \E spur \in SpuriousTop :
            /\ irq' = AfterMaster([irq EXCEPT
                                     !.master_ctl = ReadMaster(hw) \cup spur])
            /\ ev' = [SawTop(ev, hw, spur) EXCEPT
                        !.calls = @ \o <<Call("gen11_gt_irq_handler", {}),
                                         Call("gen12_iaf_irq_handler", {}),
                                         Call("gen12_hw_error_irq_handler", {})>>]
    /\ UNCHANGED hw
    /\ IrqOnly

\* a summary bit the display control register may show although the source's
\* identity register is zero ("the master control interrupt lied")
Spurious == {{}} \cup {{DeSrcs[i]} : i \in DOMAIN DeSrcs}

\* gen11_display_irq_handler lines 2629-2637: read GEN11_DISPLAY_INT_CTL,
\* write 0 to it, call gen8_de_irq_handler(i915, disp_ctl)
DispRead ==
    /\ irq.pc = "disp_read"
    /\ \E spur \in Spurious :
          /\ irq' = NextSrc([irq EXCEPT !.disp_ctl = ReadDispCtl(hw) \cup spur],
                            0)
          /\ ev' = [ev EXCEPT !.single = IF spur \subseteq ReadDispCtl(hw)
                                         THEN @ ELSE "none"]
    /\ hw' = IF hw.dpc THEN hw ELSE [hw EXCEPT !.disp = FALSE]
    /\ IrqOnly

\* gen8_de_irq_handler: the read of the identity register of source irq.src
\* (lines 1206, 1218, 1230, 1262; SDEIIR at line 1108)
DeRead ==
    /\ irq.pc = "rd"
    /\ LET src == DeSrcs[irq.src]
           iir == ReadIIR(hw, src)
       IN  /\ irq' = [irq EXCEPT
                        !.iir = iir, !.pica_iir = {}, !.pica_ier = FALSE,
                        !.pc = IF src = "SDE" /\ "SDE_PICAINTERRUPT" \in iir
                               THEN "pica_rd" ELSE "ack"]
           /\ ev' = Accessed(ev, IF iir = {} THEN "zero" ELSE "rd", src)
    /\ UNCHANGED hw
    /\ IrqOnly

\* gen8_read_and_ack_pch_irqs lines 1120-1121: PICA IER is set to 0, its old
\* value kept, and PICA IIR is read
PicaRead ==
    /\ irq.pc = "pica_rd"
    /\ irq' = [irq EXCEPT !.pc = "pica_ack",
                          !.pica_ier = hw.dpc \/ hw.pica_ier,
                          !.pica_iir = ReadIIR(hw, "PICA")]
    /\ hw' = IF hw.dpc THEN hw ELSE [hw EXCEPT !.pica_ier = FALSE]
    /\ UNCHANGED ev
    /\ IrqOnly

\* gen8_read_and_ack_pch_irqs line 1122: PICA IIR is written back
PicaAck ==
    /\ irq.pc = "pica_ack"
    /\ hw' = WriteIIR(hw, "PICA", irq.pica_iir)
    /\ ev' = Ack(ev, irq.pica_iir)
    /\ irq' = [irq EXCEPT !.pc = "ack"]
    /\ IrqOnly

\* mutant: PICA IER is left at zero
PicaIerRestore_Skip(h, pica_ier) == h

\* writing the old value back to PICA IER (lines 1127-1128): a bit still set
\* in PICA IIR raises SDE_PICAINTERRUPT again
PicaIerRestore(h, pica_ier) ==
    IF h.dpc \/ ~pica_ier THEN h
    ELSE [h EXCEPT !.pica_ier = TRUE,
                   !.iir["SDE"] = IF h.iir["PICA"] # {}
                                  THEN @ \cup {"SDE_PICAINTERRUPT"} ELSE @]

\* gen8_de_irq_handler: a non-zero value is written back to the identity
\* register and handed to the handlers of its bits; zero is logged
DeAck ==
    /\ irq.pc = "ack"
    /\ LET src == DeSrcs[irq.src]
           iir == irq.iir
       IN  /\ hw' = IF iir = {} THEN hw
                    ELSE PicaIerRestore(WriteIIR(hw, src, iir), irq.pica_ier)
           /\ ev' = IF iir = {}
                    THEN [ev EXCEPT !.logs = @ \cup DeLogs(src, iir)]
                    ELSE [Dispatched(Ack(Accessed(ev, "wr", src), iir),
                                     DeConsumed(src, iir, irq.pica_iir))
                            EXCEPT !.calls = @ \o DeCalls(src, iir,
                                                          irq.pica_iir),
                                   !.logs = @ \cup DeLogs(src, iir)]
           /\ irq' = NextSrc([irq EXCEPT !.iir = {}, !.pica_iir = {},
                                         !.pica_ier = FALSE], irq.src)
    /\ IrqOnly

\* gen11_display_irq_handler lines 2638-2639: GEN11_DISPLAY_IRQ_ENABLE
DispOn ==
    /\ irq.pc = "disp_on"
    /\ hw' = IF hw.dpc THEN hw ELSE [hw EXCEPT !.disp = TRUE]
    /\ irq' = [irq EXCEPT !.pc = "gu_rd", !.disp_ctl = {}]
    /\ UNCHANGED ev
    /\ IrqOnly

\* gen11_gu_misc_irq_ack lines 2583-2587: the read of GEN11_GU_MISC_IIR
GuRead ==
    /\ irq.pc = "gu_rd"
    /\ irq' = IF "GU_MISC" \in irq.master_ctl /\ ReadIIR(hw, "GU_MISC") # {}
              THEN [irq EXCEPT !.pc = "gu_wr",
                               !.gu_misc_iir = ReadIIR(hw, "GU_MISC")]
              ELSE [irq EXCEPT !.pc = "mstr_enable"]
    /\ ev' = IF "GU_MISC" \notin irq.master_ctl THEN ev
             ELSE Accessed(ev, IF ReadIIR(hw, "GU_MISC") = {}
                               THEN "zero" ELSE "rd", "GU_MISC")
    /\ UNCHANGED hw
    /\ IrqOnly

\* gen11_gu_misc_irq_ack line 2588: the value read is written back
GuWrite ==
    /\ irq.pc = "gu_wr"
    /\ hw' = WriteIIR(hw, "GU_MISC", irq.gu_misc_iir)
    /\ ev' = Ack(Accessed(ev, "wr", "GU_MISC"), irq.gu_misc_iir)
    /\ irq' = [irq EXCEPT !.pc = "mstr_enable"]
    /\ IrqOnly

\* line 2674 gen11_master_intr_enable, line 2766 dg1_master_intr_enable
MstrEnable ==
    /\ irq.pc = "mstr_enable"
    /\ hw' = master_intr_enable(hw)
    /\ irq' = [irq EXCEPT !.pc = "gu_handle", !.did_enable = TRUE]
    /\ UNCHANGED ev
    /\ IrqOnly

\* lines 2676-2680 and 2768-2772: gen11_gu_misc_irq_handler(i915, gu_misc_iir)
GuHandle ==
    /\ irq.pc = "gu_handle"
    /\ ev' = [Dispatched(ev, irq.gu_misc_iir) EXCEPT
                !.calls = @ \o <<Call("gen11_gu_misc_irq_handler",
                                      irq.gu_misc_iir)>>]
    /\ irq' = [irq EXCEPT !.pc = "ret", !.ret = "IRQ_HANDLED",
                          !.gu_misc_iir = {}]
    /\ UNCHANGED hw
    /\ IrqOnly

\* the handler has returned
IrqReturn ==
    /\ irq.pc = "ret"
    /\ irq' = IrqIdle
    /\ ev' = [ev EXCEPT !.calls = <<>>, !.logs = {}, !.single = "none",
                        !.late = FALSE, !.acc = {}]
    /\ UNCHANGED hw
    /\ IrqOnly

NextIrq ==
    \/ \E b \in UNION {RegBits(r) : r \in IirRegs} : HwRaise(b)
    \/ DpcStart
    \/ IrqEntry
    \/ MstrDisable
    \/ MstrRead
    \/ TileRead
    \/ DispRead
    \/ DeRead
    \/ PicaRead
    \/ PicaAck
    \/ DeAck
    \/ DispOn
    \/ GuRead
    \/ GuWrite
    \/ MstrEnable
    \/ GuHandle
    \/ IrqReturn

(***************************************************************************)
(* Hardware error handlers: i915_irq.c, gen12_hw_error_source_handler and  *)
(* the handlers and work items below it                                    *)
(***************************************************************************)

\* enum hardware_error: the severity class an error interrupt is serviced for
Sevs == {"CORRECTABLE", "NONFATAL", "FATAL"}

\* what the handlers ask about the platform: IS_PONTEVECCHIO,
\* HAS_GT_ERROR_VECTORS, HAS_MEM_SPARING_SUPPORT
Feats == [pvc : BOOLEAN, vec : BOOLEAN, spar : BOOLEAN]

NoFeat == [pvc |-> FALSE, vec |-> FALSE, spar |-> FALSE]

\* the counters of gt->errors: hw[], gsc_hw[], sgunit[] and the soc xarray,
\* one representative per way of counting
CtrSeq == <<"GT_KNOWN", "GT_SLM", "SUBSLICE", "L3BANK", "TLB", "L3_FABRIC",
            "GSC_KNOWN", "SGUNIT", "SOC_LCL_SLV", "SOC_GLB_SLV",
            "SOC_LCL_MST", "SOC_GLB_MST">>

CtrNames == Range(CtrSeq)

Counters == Sevs \X CtrNames

\* the values of GSC_HEC_CORR_FW_ERR_DW0 that gen12_mem_health_work tells
\* apart, any other value ("OTHER"), and zero
Causes == {"BANK_SPARNG_ERR_MITIGATION_DOWNGRADED",
           "BANK_SPARNG_DIS_PCLS_EXCEEDED",
           "BANK_SPARNG_ENA_PCLS_UNCORRECTABLE",
           "BANK_CORRECTABLE_ERROR", "OTHER"}

\* gt->mem_sparing.cause |= v: two different causes merged compare equal to
\* none of the known ones
CauseOr(c, v) ==
    IF c = "0" THEN v
    ELSE IF v \in {"0", c} THEN c
    ELSE "OTHER"

\* one step of a handler: a register read with the value it returned, a
\* register write, a counter update, a log line, a work item scheduled
Op(op, a, b, v, n) == [op |-> op, a |-> a, b |-> b, v |-> v, n |-> n]

\* a read ("rd") or write ("wr") of register reg with the bits v
Acc(op, reg, v) == Op(op, reg, "", v, 0)

\* a step with a number: a counter incremented by n ("cnt") or set to n
\* ("set"), a counter register read as n ("rd"), a work item scheduled
Num(op, name, n) == Op(op, name, "", {}, n)

\* a log line of a kind ("typed", "Undefined", "Invalid", "blank", "info",
\* "crit", "lost") about a bit of a register
Log(kind, reg, bit) == Op("log", kind, reg, {bit}, 0)

\* a table of counters keeps the counters that are not zero: the value of
\* counter c in table f
Val(f, c) == IF c \in DOMAIN f THEN f[c] ELSE 0

\* table f with counter c at n
Put(f, c, n) ==
    IF n = 0 THEN [d \in DOMAIN f \ {c} |-> f[d]]
    ELSE [d \in DOMAIN f \cup {c} |-> IF d = c THEN n ELSE f[d]]

\* the table with every counter at zero
NoCount == [c \in {} |-> 0]

\* the state after intel_irq_init: the counters at zero, nothing pending
InitErr(feat) ==
    er = [ feat |-> feat, cnt |-> NoCount, obs |-> NoCount, miss |-> NoCount,
           cause |-> "0", works |-> {},
           uevents |-> <<>>, taints |-> 0, ops |-> <<>>, sev |-> "none",
           sevs |-> {}, nirq |-> 0, down |-> FALSE ]

\* the error status registers, write-1-to-clear: the device error source
\* register, the GT error register and its vector registers, the GSC error
\* status, the SOC global and local registers of the master and slave IEH,
\* each for the severity being serviced
StatusRegs == {"DEV", "ERR_STAT_GT", "VCTR0", "VCTR1", "VCTR2", "VCTR6",
               "VCTR7", "VCTR4", "GSC", "SOC_GLB_MST", "SOC_GLB_SLV",
               "SOC_LCL_MST", "SOC_LCL_SLV"}

VctrReg(i) ==
    CASE i = 0 -> "VCTR0" [] i = 1 -> "VCTR1" [] i = 2 -> "VCTR2"
      [] i = 6 -> "VCTR6" [] i = 7 -> "VCTR7" [] OTHER -> "VCTR4"

IfIn(b, v, ops) == IF b \in v THEN ops ELSE <<>>

\* gen12_gt_fatal_hw_error_stats_update, gen12_gt_correctable_hw_error_
\* stats_update: KNOWN stands for a bit with a case of its own, SLM for
\* SLM_FAT_ERR / SLM_COR_ERR, UNDEF for a bit outside the platform's mask or
\* without a case; slm is the value SLM_ECC_ERROR_CNTR returns
GtStatsUpdate(feat, sev, errstat, slm) ==
    IF errstat = {} /\ feat.vec THEN <<>>
    ELSE IfIn("KNOWN", errstat,
              <<Num("cnt", "GT_KNOWN", 1),
                Log("typed", "ERR_STAT_GT", "KNOWN")>>)
         \o IfIn("SLM", errstat,
                 (IF feat.pvc THEN <<Num("cnt", "GT_SLM", 1)>>
                  ELSE <<Num("rd", "SLM_ECC_ERROR_CNTR", slm),
                         Num("set", "GT_SLM", slm)>>)
                 \o <<Log("typed", "ERR_STAT_GT", "SLM")>>)
         \o IfIn("UNDEF", errstat, <<Log("Undefined", "ERR_STAT_GT", "UNDEF")>>)

\* the vector registers gen12_gt_hw_error_handler goes through: 0 and 1
\* (subslice), 2 (L3 bank; 3 is the same), 6 (TLB) and 7 (L3 fabric) for
\* fatal errors, 4 for any index without a case
VctrIdx(sev) == IF sev = "FATAL" THEN <<0, 1, 2, 4, 6, 7>> ELSE <<0, 1, 2, 4>>

\* the body of the vector loop counting one error per register instead of
\* one per set bit
GtVctrBody_OnePerReg(feat, sev, x, i, v, unread) ==
    <<Num("cnt", CASE i \in {0, 1} -> "SUBSLICE" [] i = 2 -> "L3BANK"
                   [] i = 6 -> "TLB" [] OTHER -> "L3_FABRIC", 1),
      Acc("wr", VctrReg(i), v)>>


\* the body of the vector loop for register i with the non-zero value v;
\* unread: ERR_STAT_GT_REG has not been read as non-zero yet
GtVctrBody(feat, sev, x, i, v, unread) ==
    LET n == Cardinality(v)
        r == VctrReg(i)
        errstat ==
            IF ~unread THEN <<>>
            ELSE <<Acc("rd", "ERR_STAT_GT", x.gt), Log("info", "ERR_STAT_GT", "")>>
                 \o GtStatsUpdate(feat, sev, x.gt, x.slm)
                 \o (IF x.gt # {} THEN <<Acc("wr", "ERR_STAT_GT", x.gt)>>
                     ELSE <<>>)
        wr == <<Acc("wr", r, v)>>
    IN  CASE i \in {0, 1} ->
               <<Num("cnt", "SUBSLICE", n), Log("typed", r, "")>>
               \o errstat \o wr
          [] i = 2 ->
               IF sev = "FATAL"
               THEN <<Num("cnt", "L3BANK", n)>> \o wr
                    \o <<Log("typed", r, "")>>
               ELSE <<Num("cnt", "L3BANK", n), Log("typed", r, "")>>
                    \o wr
          [] i = 6 ->
               <<Num("cnt", "TLB", n)>> \o wr \o <<Log("typed", r, "")>>
          [] i = 7 ->
               <<Num("cnt", "L3_FABRIC", n), Log("typed", r, ""),
                 Log("info", r, "gt_l3fabric_error_handler")>> \o wr
          [] OTHER ->
               IF sev = "FATAL" THEN wr \o <<Log("Undefined", r, "")>>
               ELSE <<Log("Undefined", r, "")>> \o wr

RECURSIVE GtVctrLoop(_, _, _, _, _)
\* the vector loop from position k of VctrIdx(sev)
GtVctrLoop(feat, sev, x, k, unread) ==
    IF k > Len(VctrIdx(sev)) THEN <<>>
    ELSE LET i == VctrIdx(sev)[k]
             v == IF i \in x.vctr THEN x.vval ELSE {}
         IN  <<Acc("rd", VctrReg(i), v)>>
             \o (IF v = {} THEN <<>>
                 ELSE GtVctrBody(feat, sev, x, i, v, unread))
             \o GtVctrLoop(feat, sev, x, k + 1,
                           unread /\ ~(v # {} /\ i \in {0, 1} /\ x.gt # {}))

\* gen12_gt_hw_error_handler(gt, hw_err)
gen12_gt_hw_error_handler(feat, sev, x) ==
    IF ~feat.vec
    THEN <<Acc("rd", "ERR_STAT_GT", x.gt)>>
         \o (IF x.gt = {} THEN <<Log("blank", "ERR_STAT_GT", "")>>
             ELSE (CASE sev = "CORRECTABLE" ->
                          <<Log("info", "GT", sev)>>
                          \o GtStatsUpdate(feat, sev, x.gt, x.slm)
                          \o <<Log("info", "ERR_STAT_GT", "")>>
                     [] sev = "NONFATAL" ->
                          <<Log("Undefined", "ERR_STAT_GT", "")>>
                     [] sev = "FATAL" ->
                          <<Log("info", "GT", sev)>>
                          \o GtStatsUpdate(feat, sev, x.gt, x.slm)
                          \o <<Log("info", "ERR_STAT_GT", "")>>)
                  \o <<Acc("wr", "ERR_STAT_GT", x.gt)>>)
    ELSE IF sev = "NONFATAL" THEN <<Log("Undefined", "GT", sev)>>
    ELSE <<Log("info", "GT", sev)>>
         \o GtVctrLoop(feat, sev, x, 1, TRUE)
         \o (IF x.vctr \cap Range(VctrIdx(sev)) = {}
             THEN <<Log("Undefined", "GT", "no vectr reg is set")>>
             ELSE <<>>)

\* log_hbm_err_info(gt, cause, swf0, swf1): dev_crit "Unrepairable fault has
\* been detected, replace the PVC Card" for the sparing-exhausted
\* uncorrectable cause, an error log line for every other cause
log_hbm_err_info(cause) ==
    <<Log(IF cause = "BANK_SPARNG_ENA_PCLS_UNCORRECTABLE"
          THEN "crit" ELSE "info", "HBM", cause)>>

\* gen12_gsc_hw_error_handler without the write at re_enable_interrupt
gen12_gsc_hw_error_handler_NoAck(feat, sev, x, cause) ==
    IF ~feat.spar THEN <<>> ELSE <<Acc("rd", "GSC", x.gsc)>>


\* gen12_gsc_hw_error_handler(gt, hw_err), cause being gt->mem_sparing.cause
\* at entry; KNOWN stands for a bit with an error type of its own, FW for
\* GSC_COR_FW_REPORTED_ERR / GSC_UNCOR_FW_REPORTED_ERR
gen12_gsc_hw_error_handler(feat, sev, x, cause) ==
    IF ~feat.spar THEN <<>>
    ELSE IF x.gsc = {} THEN <<Acc("rd", "GSC", {})>>
    ELSE LET c1 == CauseOr(cause, x.dw0)
             stop == "FW" \in x.gsc /\ c1 = "0"
             cor ==
                 IfIn("KNOWN", x.gsc, <<Num("cnt", "GSC_KNOWN", 1),
                                        Log("typed", "GSC", "KNOWN")>>)
                 \o IfIn("FW", x.gsc,
                       <<Num("rd", "GSC_HEC_CORR_FW_ERR_DW0", 0),
                         Op("cause", "", x.dw0, {}, 0),
                         Log("typed", "GSC", "FW")>>
                       \o (IF stop THEN <<>>
                           ELSE (IF feat.pvc
                                 THEN <<Num("rd", "SWF", 0)>>
                                      \o log_hbm_err_info(c1)
                                      \o <<Num("wr", "SWF", 0)>>
                                 ELSE <<>>)
                                \o <<Num("sched", "mem_health_work", 0)>>))
                 \o (IF stop THEN <<>>
                     ELSE IfIn("UNDEF", x.gsc,
                               <<Log("Undefined", "GSC", "UNDEF")>>))
             uncor ==
                 IfIn("KNOWN", x.gsc,
                      <<Num("cnt", "GSC_KNOWN", 1),
                        Num("sched", "gsc_hw_error_work", 0),
                        Log("typed", "GSC", "KNOWN")>>)
                 \o IfIn("FW", x.gsc,
                         <<Num("sched", "gsc_hw_error_work", 0),
                           Log("typed", "GSC", "FW")>>)
                 \o IfIn("UNDEF", x.gsc,
                         <<Num("sched", "gsc_hw_error_work", 0),
                           Log("Undefined", "GSC", "UNDEF")>>)
         IN  <<Acc("rd", "GSC", x.gsc)>>
             \o (CASE sev = "CORRECTABLE" -> cor
                   [] sev = "NONFATAL" -> uncor
                   [] sev = "FATAL" -> <<Log("info", "GSC", "Fatal")>>)
             \o <<Acc("wr", "GSC", x.gsc)>>

\* update_soc_hw_error_cnt and log_soc_hw_error for the error bits of a SOC
\* register (KNOWN, MDFI: bits soc_err_index_to_str has a name for): the
\* xarray store can fail, and the count is then lost
SocBits(x, reg, bits) ==
    LET count == IF x.xa_fail THEN <<Log("lost", reg, "")>>
                 ELSE <<Num("cnt", reg, 1)>>
    IN  IfIn("KNOWN", bits, count \o <<Log("typed", reg, "KNOWN")>>)
        \o IfIn("MDFI", bits, count \o <<Log("typed", reg, "MDFI")>>)
        \o IfIn("UNDEF", bits, count \o <<Log("Undefined", reg, "UNDEF")>>)

\* gen12_soc_hw_error_handler(gt, hw_err)
gen12_soc_hw_error_handler(feat, sev, x) ==
    IF ~feat.pvc THEN <<>>
    ELSE IF sev = "CORRECTABLE"
    THEN <<Log("info", "SOC", sev),
           Acc("wr", "SOC_GSYSEVTCTL", {"mask"}),
           Acc("wr", "SOC_GLB_MST", {"all"}), Acc("wr", "SOC_LCL_MST", {"all"}),
           Acc("wr", "SOC_GLB_SLV", {"all"}), Acc("wr", "SOC_LCL_SLV", {"all"}),
           Log("Invalid", "SOC", sev),
           Acc("wr", "SOC_GSYSEVTCTL", {"unmask"})>>
    ELSE LET mdfi_drop == "MDFI" \in x.lclm /\ ~x.hdr
             slave ==
                 <<Acc("rd", "SOC_GLB_SLV", x.slv), Log("info", "SOC_GLB_SLV", "")>>
                 \o IfIn("IEH1_LOCAL", x.slv,
                         <<Acc("rd", "SOC_LCL_SLV", x.lcls),
                           Log("info", "SOC_LCL_SLV", "")>>
                         \o IfIn("KNOWN", x.lcls,
                                 (IF x.xa_fail
                                  THEN <<Log("lost", "SOC_LCL_SLV", "")>>
                                  ELSE <<Num("cnt", "SOC_LCL_SLV", 1)>>)
                                 \o <<Log("Invalid", "SOC_LCL_SLV", "KNOWN")>>)
                         \o <<Acc("wr", "SOC_LCL_SLV", x.lcls)>>)
                 \o SocBits(x, "SOC_GLB_SLV", x.slv)
                 \o <<Acc("wr", "SOC_GLB_SLV", x.slv)>>
             local ==
                 <<Acc("rd", "SOC_LCL_MST", x.lclm), Log("info", "SOC_LCL_MST", "")>>
                 \o IfIn("MDFI", x.lclm,
                         <<Num("rd", "LOCAL_FIRST_IEH_HEADER_LOG_REG", 0),
                           Log("info", "LOCAL_FIRST_IEH_HEADER_LOG_REG", "")>>)
                 \o SocBits(x, "SOC_LCL_MST",
                            IF mdfi_drop THEN x.lclm \ {"MDFI"} ELSE x.lclm)
                 \o <<Acc("wr", "SOC_LCL_MST",
                          IF mdfi_drop THEN x.lclm \ {"MDFI"} ELSE x.lclm)>>
         IN  <<Log("info", "SOC", sev), Acc("wr", "SOC_GSYSEVTCTL", {"mask"}),
               Acc("rd", "SOC_GLB_MST", x.mst), Log("info", "SOC_GLB_MST", "")>>
             \o IfIn("SLAVE_IEH", x.mst, slave)
             \o IfIn("IEH0_LOCAL", x.mst, local)
             \o SocBits(x, "SOC_GLB_MST", x.mst)
             \o <<Acc("wr", "SOC_GLB_MST", x.mst),
                  Acc("wr", "SOC_GSYSEVTCTL", {"unmask"})>>


\* log_errors(gt, hw_err, is_error_valid, err_msg): nothing unless the
\* platform is Ponte Vecchio
log_errors(feat, is_error_valid, bit) ==
    IF ~feat.pvc THEN <<>>
    ELSE <<Log(IF is_error_valid THEN "typed" ELSE "Undefined", "DEV", bit)>>

\* gen12_hw_error_source_handler(gt, hw_err) under gt->irq_lock: the steps it
\* and the handlers it calls take for the register values x
gen12_hw_error_source_handler(feat, sev, x, cause) ==
    IF x.dev = {} THEN <<Acc("rd", "DEV", {}), Log("blank", "DEV", "")>>
    ELSE <<Acc("rd", "DEV", x.dev)>>
         \o (IF feat.pvc THEN <<Log("info", "DEV", "")>> ELSE <<>>)
         \o IfIn("GT", x.dev, gen12_gt_hw_error_handler(feat, sev, x))
         \o IfIn("SGGI", x.dev, log_errors(feat, sev # "CORRECTABLE", "SGGI"))
         \o IfIn("GSC", x.dev,
                 IF x.id = 0
                 THEN gen12_gsc_hw_error_handler(feat, sev, x, cause)
                 ELSE log_errors(feat, FALSE, "GSC"))
         \o IfIn("SGUNIT", x.dev,
                 log_errors(feat, FALSE, "SGUNIT")
                 \o <<Num("cnt", "SGUNIT", 1)>>)
         \o IfIn("SOC", x.dev, gen12_soc_hw_error_handler(feat, sev, x))
         \o IfIn("UNDEF", x.dev, log_errors(feat, FALSE, "UNDEF"))
         \o <<Acc("wr", "DEV", x.dev)>>

\* the register values one interrupt can find: nothing set anywhere
NoErr ==
    [ dev |-> {}, id |-> 0, gt |-> {}, vctr |-> {}, vval |-> {"b0"}, slm |-> 0,
      gsc |-> {}, dw0 |-> "0", mst |-> {}, slv |-> {}, lcls |-> {},
      lclm |-> {}, hdr |-> TRUE, xa_fail |-> FALSE ]

\* the values ERR_STAT_GT and SLM_ECC_ERROR_CNTR can return: the counter
\* register is read only for the SLM bit on a platform other than Ponte
\* Vecchio
GtErrStats(feat) ==
    {[NoErr EXCEPT !.gt = g] : g \in {{"KNOWN"}, {"KNOWN", "UNDEF"}}}
    \cup {[NoErr EXCEPT !.gt = {"SLM"}, !.slm = n] :
             n \in (IF feat.pvc THEN {0} ELSE 0..MaxSlm)}

\* the register values one interrupt can find, by the source that is set in
\* the device error source register; a register no path reads is left at
\* zero
ErrInputs(feat) ==
    {[NoErr EXCEPT !.dev = d] : d \in {{}, {"SGUNIT"}, {"SGGI", "UNDEF"}}}
    \cup {[NoErr EXCEPT !.dev = {"GSC", "UNDEF"}, !.id = 1]}
    \cup {[NoErr EXCEPT !.dev = {"GT"}]}
    \cup {[x EXCEPT !.dev = {"GT"}, !.vctr = IF feat.vec THEN {0} ELSE {}] :
             x \in GtErrStats(feat)}
    \cup (IF ~feat.vec THEN {}
          ELSE {[NoErr EXCEPT !.dev = {"GT"}, !.vctr = {0, 1},
                              !.vval = {"b0", "b1"}, !.gt = {"KNOWN"}],
                [NoErr EXCEPT !.dev = {"GT", "SGUNIT"}, !.vctr = {2, 6},
                              !.vval = {"b0", "b1"}]}
               \cup {[NoErr EXCEPT !.dev = {"GT"}, !.vctr = {i}] :
                        i \in {1, 2, 4, 6, 7}})
    \cup (IF ~feat.spar THEN {[NoErr EXCEPT !.dev = {"GSC"}]}
          ELSE {[NoErr EXCEPT !.dev = {"GSC"}, !.gsc = g] :
                   g \in {{}, {"KNOWN"}, {"UNDEF"}}}
               \cup {[NoErr EXCEPT !.dev = {"GSC"}, !.gsc = {"FW"},
                                   !.dw0 = c] : c \in Causes \cup {"0"}}
               \cup {[NoErr EXCEPT !.dev = {"GSC"},
                                   !.gsc = {"KNOWN", "FW", "UNDEF"},
                                   !.dw0 = c] :
                        c \in {"0", "BANK_SPARNG_ENA_PCLS_UNCORRECTABLE"}})
    \cup (IF ~feat.pvc THEN {[NoErr EXCEPT !.dev = {"SOC"}]}
          ELSE {[NoErr EXCEPT !.dev = {"SOC"}, !.mst = m] :
                   m \in {{}, {"KNOWN"}, {"UNDEF"}}}
               \cup {[NoErr EXCEPT !.dev = {"SOC"}, !.mst = {"KNOWN"},
                                   !.xa_fail = TRUE]}
               \cup {[NoErr EXCEPT !.dev = {"SOC"}, !.mst = {"SLAVE_IEH"},
                                   !.slv = sl[1], !.lcls = sl[2]] :
                        sl \in {<<{"KNOWN"}, {}>>, <<{"IEH1_LOCAL"}, {}>>,
                                <<{"IEH1_LOCAL", "UNDEF"}, {"KNOWN"}>>}}
               \cup {[NoErr EXCEPT !.dev = {"SOC"}, !.mst = {"IEH0_LOCAL"},
                                   !.lclm = lm[1], !.hdr = lm[2]] :
                        lm \in {<<{"KNOWN"}, TRUE>>, <<{"UNDEF"}, TRUE>>,
                                <<{"MDFI"}, TRUE>>, <<{"MDFI"}, FALSE>>,
                                <<{"KNOWN", "MDFI"}, FALSE>>}}
               \cup {[NoErr EXCEPT !.dev = {"SOC"},
                                   !.mst = {"SLAVE_IEH", "IEH0_LOCAL", "KNOWN"},
                                   !.slv = {"IEH1_LOCAL", "KNOWN"},
                                   !.lcls = {"KNOWN"}, !.lclm = {"KNOWN"},
                                   !.xa_fail = TRUE]})

\* the status registers and bits counter name counts, and the severities it
\* exists for
CtrOf(name) ==
    CASE name = "GT_KNOWN" ->
            [regs |-> {"ERR_STAT_GT"}, bits |-> {"KNOWN"},
             sevs |-> {"CORRECTABLE", "FATAL"}]
      [] name = "GT_SLM" ->
            [regs |-> {"ERR_STAT_GT"}, bits |-> {"SLM"},
             sevs |-> {"CORRECTABLE", "FATAL"}]
      [] name = "SUBSLICE" ->
            [regs |-> {"VCTR0", "VCTR1"}, bits |-> {"b0", "b1"},
             sevs |-> {"CORRECTABLE", "FATAL"}]
      [] name = "L3BANK" ->
            [regs |-> {"VCTR2"}, bits |-> {"b0", "b1"},
             sevs |-> {"CORRECTABLE", "FATAL"}]
      [] name = "TLB" ->
            [regs |-> {"VCTR6"}, bits |-> {"b0", "b1"}, sevs |-> {"FATAL"}]
      [] name = "L3_FABRIC" ->
            [regs |-> {"VCTR7"}, bits |-> {"b0", "b1"}, sevs |-> {"FATAL"}]
      [] name = "GSC_KNOWN" ->
            [regs |-> {"GSC"}, bits |-> {"KNOWN"},
             sevs |-> {"CORRECTABLE", "NONFATAL"}]
      [] name = "SGUNIT" ->
            [regs |-> {"DEV"}, bits |-> {"SGUNIT"}, sevs |-> Sevs]
      [] OTHER ->
            [regs |-> {name}, bits |-> {"KNOWN", "MDFI", "UNDEF"},
             sevs |-> {"NONFATAL", "FATAL"}]

CtrTab == [name \in CtrNames |-> CtrOf(name)]

\* how many set bits of counter c the read o has observed
Observed(o, sev, c) ==
    IF /\ o.op = "rd" /\ c[1] = sev /\ o.a \in CtrTab[c[2]].regs
       /\ sev \in CtrTab[c[2]].sevs
    THEN Cardinality(o.v \cap CtrTab[c[2]].bits)
    ELSE 0

\* the value the steps ops read from register reg, {} if they did not
RdVal(ops, reg) ==
    UNION {ops[i].v : i \in {j \in DOMAIN ops :
                                ops[j].op = "rd" /\ ops[j].a = reg}}

\* how many set bits of counter c step k of ops gives up counting: a failed
\* xarray store ("lost"), and the bits a register is written back without
\* (the MDFI bit of a foreign header)
Missed(ops, k, sev, c) ==
    LET o == ops[k]
    IN  IF c[1] # sev \/ sev \notin CtrTab[c[2]].sevs THEN 0
        ELSE IF o.op = "log" /\ o.a = "lost" /\ o.b = c[2] THEN 1
        ELSE IF o.op = "wr" /\ o.a \in CtrTab[c[2]].regs /\ o.v # {"all"}
        THEN Cardinality((RdVal(ops, o.a) \ o.v) \cap CtrTab[c[2]].bits)
        ELSE 0

\* the counters that count bits of status register reg
RegCtrs ==
    [reg \in StatusRegs |->
        SelectSeq(CtrSeq, LAMBDA name : reg \in CtrTab[name].regs)]

RECURSIVE Tally(_, _, _, _, _, _)
\* the history f with what step k of ops observed (which = "obs") or gave
\* up counting (which = "miss") added, for the counters of the step's
\* register from the i-th on
Tally(f, which, ops, k, sev, i) ==
    IF i > Len(RegCtrs[IF ops[k].op = "log" THEN ops[k].b ELSE ops[k].a])
    THEN f
    ELSE LET c == <<sev, RegCtrs[IF ops[k].op = "log" THEN ops[k].b
                                 ELSE ops[k].a][i]>>
             n == IF which = "obs" THEN Observed(ops[k], sev, c)
                  ELSE Missed(ops, k, sev, c)
         IN  Tally(IF n = 0 THEN f ELSE Put(f, c, Val(f, c) + n),
                   which, ops, k, sev, i + 1)

RECURSIVE ApplyOps(_, _, _)
\* the effect of the steps ops[k..] of a handler servicing e.sev on gt->errors
\* and gt->mem_sparing, and on the history of what the reads observed
ApplyOps(e, ops, k) ==
    IF k > Len(ops) THEN e
    ELSE LET o == ops[k]
             c == <<e.sev, o.a>>
             e1 == CASE o.op = "cnt" ->
                            [e EXCEPT !.cnt = Put(@, c, Val(@, c) + o.n)]
                     [] o.op = "set" -> [e EXCEPT !.cnt = Put(@, c, o.n)]
                     [] o.op = "cause" ->
                            [e EXCEPT !.cause = CauseOr(@, o.b)]
                     [] o.op = "sched" -> [e EXCEPT !.works = @ \cup {o.a}]
                     [] o.op = "rd" /\ o.a \in StatusRegs /\ o.v # {} ->
                            [e EXCEPT !.obs =
                                        Tally(@, "obs", ops, k, e.sev, 1)]
                     [] \/ o.op = "log" /\ o.a = "lost"
                        \/ /\ o.op = "wr" /\ o.a \in StatusRegs
                           /\ o.v # RdVal(ops, o.a) ->
                            [e EXCEPT !.miss =
                                        Tally(@, "miss", ops, k, e.sev, 1)]
                     [] OTHER -> e
         IN  ApplyOps(e1, ops, k + 1)

\* an error interrupt serviced by a handler that starts from cleared
\* counters
ErrIrq_Fresh(sev) ==
    /\ er.sev = "none"
    /\ er.nirq < MaxErrIrqs
    /\ \E x \in ErrInputs(er.feat) :
          LET ops == gen12_hw_error_source_handler(er.feat, sev, x, er.cause)
          IN  er' = ApplyOps([er EXCEPT !.sev = sev, !.ops = ops,
                                        !.nirq = @ + 1,
                                        !.sevs = @ \cup {sev},
                                        !.cnt = NoCount],
                             ops, 1)
    /\ ErrOnly


\* an error interrupt of severity sev is serviced: gen12_hw_error_irq_handler
\* calls gen12_hw_error_source_handler(gt, sev), which runs under
\* gt->irq_lock with interrupts off
ErrIrq(sev) ==
    /\ er.sev = "none"
    /\ er.nirq < MaxErrIrqs
    /\ \E x \in ErrInputs(er.feat) :
          LET ops == gen12_hw_error_source_handler(er.feat, sev, x, er.cause)
          IN  er' = ApplyOps([er EXCEPT !.sev = sev, !.ops = ops,
                                        !.nirq = @ + 1,
                                        !.sevs = @ \cup {sev}], ops, 1)
    /\ ErrOnly

\* the handler has returned
ErrReturn ==
    /\ er.sev # "none"
    /\ er' = [er EXCEPT !.sev = "none", !.ops = <<>>]
    /\ ErrOnly

\* gen12_mem_health_work returning before the switch on the cause
MemHealthWork_Silent ==
    /\ "mem_health_work" \in er.works
    /\ er' = [er EXCEPT !.works = @ \ {"mem_health_work"}, !.cause = "0"]
    /\ ErrOnly


\* gen12_mem_health_work without the return of the case
\* BANK_CORRECTABLE_ERROR, which then falls into the default case
MemHealthWork_NoReturn ==
    /\ "mem_health_work" \in er.works
    /\ er' = [er EXCEPT !.works = @ \ {"mem_health_work"}, !.cause = "0",
                        !.uevents =
                            IF er.cause = "0" THEN @
                            ELSE Append(@, "SPARING_STATUS_UNKNOWN=1")]
    /\ ErrOnly


\* gen12_mem_health_work runs
MemHealthWork ==
    /\ "mem_health_work" \in er.works
    /\ LET cause == er.cause
           e == [er EXCEPT !.works = @ \ {"mem_health_work"}, !.cause = "0"]
       IN  er' =
             CASE cause \in {"0", "BANK_CORRECTABLE_ERROR"} -> e
               [] cause = "BANK_SPARNG_ERR_MITIGATION_DOWNGRADED" ->
                    [e EXCEPT !.uevents = Append(@, "MEM_HEALTH_ALARM=1")]
               [] cause = "BANK_SPARNG_DIS_PCLS_EXCEEDED" ->
                    [e EXCEPT !.uevents =
                                Append(@, "RESET_REQUIRED=1 EC_PENDING=1")]
               [] cause = "BANK_SPARNG_ENA_PCLS_UNCORRECTABLE" ->
                    [e EXCEPT !.uevents = Append(@, "DEGRADED=1 EC_FAILED=1"),
                              !.taints = @ + 1]
               [] OTHER ->
                    [e EXCEPT !.uevents = Append(@, "SPARING_STATUS_UNKNOWN=1")]
    /\ ErrOnly

\* gen12_gsc_hw_error_work runs
GscHwErrorWork ==
    /\ "gsc_hw_error_work" \in er.works
    /\ er' = [er EXCEPT
                !.works = @ \ {"gsc_hw_error_work"},
                !.uevents =
                    Append(@, "SPARING_STATUS_UNKNOWN=1 RESET_REQUIRED=1")]
    /\ ErrOnly

NextErr ==
    \/ \E sev \in Sevs : ErrIrq(sev)
    \/ ErrReturn
    \/ MemHealthWork
    \/ GscHwErrorWork

(***************************************************************************)
(* Engine idle detection: gt/intel_engine_cs.c, intel_engine_is_idle       *)
(* and ring_is_idle. The requests, the submission tasklet, the command     *)
(* streamer, the breadcrumbs and the reset code are the environment.       *)
(***************************************************************************)

\* the engine after intel_engine_setup, parked: no request, nothing queued,
\* the ring empty and the command streamer idle; guc is
\* intel_engine_uses_guc
InitEng(guc) ==
    eng = [ guc |-> guc, wedged |-> FALSE, awake |-> FALSE,
            queue |-> 0,     \* ready requests in engine->sched_engine
            ring |-> 0,      \* requests in the ring: RING_HEAD # RING_TAIL
            mi_idle |-> TRUE,    \* MODE_IDLE of RING_MI_MODE
            unsig |-> 0,     \* submitted requests whose fence has not signalled
            nreq |-> 0, ncalls |-> 0,
            ret |-> "none",  \* what the last intel_engine_is_idle returned
            at |-> [unsig |-> 0, wedged |-> FALSE, left |-> 0,
                    mi_idle |-> TRUE, awake |-> FALSE, queue |-> 0,
                    mmio |-> FALSE] ]

\* a request is created and submitted: the engine is woken, and the request
\* enters the queue of the scheduler; on a wedged gt nop_submit_request
\* completes it at once, the fence to be signalled later
Submit ==
    /\ eng.nreq < MaxReqs
    /\ eng' = [eng EXCEPT !.nreq = @ + 1, !.unsig = @ + 1, !.awake = TRUE,
                          !.queue = IF eng.wedged THEN @ ELSE @ + 1]
    /\ EngOnly

\* the submission tasklet moves the ready requests to the hardware
Tasklet ==
    /\ eng.queue > 0 /\ ~eng.wedged
    /\ eng' = [eng EXCEPT !.ring = @ + eng.queue, !.queue = 0,
                          !.mi_idle = FALSE]
    /\ EngOnly

\* the command streamer completes a request: the head moves up to the tail
\* with the last one
HwExecute ==
    /\ eng.ring > 0
    /\ eng' = [eng EXCEPT !.ring = @ - 1]
    /\ EngOnly

\* the command streamer, out of commands, goes idle
HwIdle ==
    /\ eng.ring = 0 /\ ~eng.mi_idle
    /\ eng' = [eng EXCEPT !.mi_idle = TRUE]
    /\ EngOnly

\* the breadcrumbs signal the fence of a request the hardware has completed
\* or the reset has cancelled
FenceSignal ==
    /\ eng.unsig > eng.queue + eng.ring
    /\ eng' = [eng EXCEPT !.unsig = @ - 1]
    /\ EngOnly

\* the last request retired, the engine is parked
Park ==
    /\ eng.awake /\ eng.unsig = 0 /\ eng.ring = 0 /\ eng.mi_idle
    /\ eng' = [eng EXCEPT !.awake = FALSE]
    /\ EngOnly

\* intel_gt_set_wedged: the engine is stopped and every request in flight
\* or queued is cancelled; their fences signal afterwards
Wedge ==
    /\ ~eng.wedged
    /\ eng' = [eng EXCEPT !.wedged = TRUE, !.queue = 0, !.ring = 0,
                          !.mi_idle = TRUE]
    /\ EngOnly

\* intel_engine_is_idle trusting the queue alone under GuC submission
intel_engine_is_idle_QueueOnly(e) ==
    IF e.wedged THEN TRUE
    ELSE IF ~e.awake THEN TRUE
    ELSE IF e.queue # 0 THEN FALSE
    ELSE IF e.guc THEN TRUE
    ELSE e.ring = 0 /\ e.mi_idle

\* ring_is_idle comparing head and tail only
ring_is_idle_HeadTail(e) == e.ring = 0


\* ring_is_idle(engine), the engine being awake: no commands left between
\* RING_HEAD and RING_TAIL, and MODE_IDLE set
ring_is_idle(e) == e.ring = 0 /\ e.mi_idle

\* intel_engine_is_idle(engine), e being the engine as
\* intel_engine_flush_submission leaves it
intel_engine_is_idle(e) ==
    IF e.wedged THEN TRUE
    ELSE IF ~e.awake THEN TRUE
    ELSE IF e.queue # 0 THEN FALSE
    ELSE IF e.guc THEN FALSE
    ELSE ring_is_idle(e)

\* the call of intel_engine_is_idle(engine) reaches ring_is_idle and reads
\* RING_HEAD, RING_TAIL and RING_MI_MODE
ReadsRing(e) == ~e.wedged /\ e.awake /\ e.queue = 0 /\ ~e.guc

\* a call of intel_engine_is_idle: past the wedged and awake checks it runs
\* the submission tasklet, unless the tasklet is running elsewhere or
\* disabled by a reset (flushed = FALSE), in which case the queue is left
\* as it is
IsIdle ==
    /\ eng.ncalls < MaxIdleCalls
    /\ \E flushed \in BOOLEAN :
          LET early == eng.wedged \/ ~eng.awake
              moved == ~early /\ flushed /\ eng.queue > 0
              e1 == IF moved
                    THEN [eng EXCEPT !.ring = @ + eng.queue, !.queue = 0,
                                     !.mi_idle = FALSE]
                    ELSE eng
          IN  eng' = [e1 EXCEPT
                        !.ncalls = @ + 1,
                        !.ret = IF intel_engine_is_idle(e1)
                                THEN "true" ELSE "false",
                        !.at = [unsig |-> eng.unsig, wedged |-> eng.wedged,
                                left |-> eng.queue + eng.ring,
                                mi_idle |-> eng.mi_idle,
                                awake |-> eng.awake, queue |-> e1.queue,
                                mmio |-> ReadsRing(e1)]]
    /\ EngOnly

NextEng ==
    \/ Submit
    \/ Tasklet
    \/ HwExecute
    \/ HwIdle
    \/ FenceSignal
    \/ Park
    \/ Wedge
    \/ IsIdle

(***************************************************************************)
(* Request lifecycle: selftests/i915_request.c. The live tests create      *)
(* requests on contexts, add them, make them await each other, cancel      *)
(* them and wait for them. i915_request_add, i915_request_cancel,          *)
(* i915_request_await_dma_fence, the engines and the breadcrumbs are the   *)
(* environment the tests run against: every context has an engine of its   *)
(* own, which executes the requests of the context's timeline in the       *)
(* order they were added.                                                  *)
(***************************************************************************)

\* number of i915_request_cancel calls of one run
MaxCancels == 2

\* the requests of one run, numbered as they are created
ReqIds == {1, 2}

\* the contexts of the tests
ReqCtxs == {1, 2}

\* the error codes given to i915_request_cancel
ReqErrs == {"EINTR", "EIO"}

\* no request yet; preempt is intel_engine_has_preemption of the engines
InitReq(preempt) ==
    rq = [ preempt |-> preempt, nadd |-> 0, ncancel |-> 0, r |-> <<>> ]

\* the contexts requests have been created on
CtxsUsed == {rq.r[i].ctx : i \in DOMAIN rq.r}

\* the requests added to the timeline of request i's context before i
Ahead(i) ==
    {j \in DOMAIN rq.r : /\ rq.r[j].ctx = rq.r[i].ctx
                         /\ rq.r[j].seqno > 0
                         /\ rq.r[j].seqno < rq.r[i].seqno}

\* igt_spinner_create_request on a context: the payload spins until the
\* request is cancelled (spin), or igt_spinner_end has been called on it
\* before the request is added and it ends by itself; the context is one
\* in use or the next one created
CreateRequest(c, spin) ==
    /\ Len(rq.r) < Cardinality(ReqIds)
    /\ c \in CtxsUsed \cup {Cardinality(CtxsUsed) + 1}
    /\ rq' = [rq EXCEPT !.r = Append(@,
                 [ ctx |-> c, spin |-> spin, st |-> "unsubmitted",
                   sig |-> FALSE,    \* the fence has signalled
                   err |-> "0",      \* rq->fence.error
                   skip |-> FALSE,   \* the payload is to be skipped
                   seqno |-> 0,      \* its place in the order of adding
                   awaits |-> {},    \* the fences it waits for
                   cat |-> "none",   \* where the cancel that marked it found it
                   again |-> "0",    \* the error of a cancel repeated on it
                   late |-> FALSE ]) ]   \* cancelled after its success
    /\ ReqOnly

\* i915_request_await_dma_fence(b, &a->fence), a having been added and b
\* not: nothing to await if a's fence has signalled
AwaitFence(b, a) ==
    /\ a \in DOMAIN rq.r /\ b \in DOMAIN rq.r /\ a # b
    /\ rq.r[b].st = "unsubmitted" /\ rq.r[a].seqno > 0
    /\ ~rq.r[a].sig /\ a \notin rq.r[b].awaits
    /\ rq' = [rq EXCEPT !.r[b].awaits = @ \cup {a}]
    /\ ReqOnly

\* a cancel that overwrites the fence error of a request already cancelled
CancelBody_Overwrite(q, e) ==
    IF q.st = "complete" THEN q
    ELSE [q EXCEPT !.err = e,
                   !.skip = (q.st # "executing" \/ rq.preempt)]

\* a cancel that marks the fence of a completed request
CancelBody_Late(q, e) ==
    IF q.err # "0" THEN q
    ELSE [q EXCEPT !.err = e,
                   !.skip = (q.st # "executing" \/ rq.preempt)]

\* a cancel that marks the fence and leaves the payload as it is
CancelBody_MarkOnly(q, e) ==
    IF q.st = "complete" \/ q.err # "0" THEN q
    ELSE [q EXCEPT !.err = e]


\* a cancel that marks the fence whatever has become of the request
CancelBody_Always(q, e) ==
    [q EXCEPT !.err = e, !.skip = (q.st # "executing" \/ rq.preempt)]


\* a cancel that leaves an executing request to run
CancelBody_NoSkip(q, e) ==
    IF q.st = "complete" \/ q.err # "0" THEN q
    ELSE [q EXCEPT !.err = e, !.skip = (q.st # "executing")]

\* i915_request_cancel(rq, error) on request q: without effect on a
\* completed request or on one whose fence error is set; otherwise the
\* fence is marked with the error and the payload is skipped: when the
\* request comes to execute, or at once by preemption if it is executing
CancelBody(q, e) ==
    IF q.st = "complete" \/ q.err # "0" THEN q
    ELSE [q EXCEPT !.err = e,
                   !.skip = (q.st # "executing" \/ rq.preempt)]

\* a call of i915_request_cancel on request i; the history keeps where
\* the call that marked the fence found the request, the error given by a
\* call repeated before the request completed, and whether a call was made
\* after the request had completed with success
CancelRequest(i, e) ==
    /\ i \in DOMAIN rq.r /\ rq.ncancel < MaxCancels
    /\ LET q == rq.r[i]
           c == CancelBody(q, e)
       IN  rq' = [rq EXCEPT !.ncancel = @ + 1, !.r[i] =
                    [c EXCEPT
                       !.cat = IF c.err # q.err /\ @ = "none"
                               THEN q.st ELSE @,
                       !.again = IF q.st # "complete" /\ q.err # "0"
                                    /\ @ = "0"
                                 THEN e ELSE @,
                       !.late = @ \/ (q.st = "complete" /\ q.err = "0")]]
    /\ ReqOnly

\* i915_request_add: the request takes its place in the timeline
AddRequest(i) ==
    /\ i \in DOMAIN rq.r /\ rq.r[i].st = "unsubmitted"
    /\ rq' = [rq EXCEPT !.nadd = @ + 1,
                        !.r[i].st = "submitted",
                        !.r[i].seqno = rq.nadd + 1]
    /\ ReqOnly

\* the engine starting a request whatever is ahead of it in the timeline
HwStartGuard_AnyOrder(i) ==
    \A a \in rq.r[i].awaits : rq.r[a].sig

\* the engine starting a request whatever fences it awaits
HwStartGuard_NoAwait(i) ==
    \A j \in Ahead(i) : rq.r[j].st = "complete"

\* a request may start once the requests ahead of it in its timeline have
\* completed and the fences it awaits have signalled
HwStartGuard(i) ==
    /\ \A j \in Ahead(i) : rq.r[j].st = "complete"
    /\ \A a \in rq.r[i].awaits : rq.r[a].sig

\* the engine starts executing the request
HwStart(i) ==
    /\ i \in DOMAIN rq.r /\ rq.r[i].st = "submitted"
    /\ HwStartGuard(i)
    /\ rq' = [rq EXCEPT !.r[i].st = "executing"]
    /\ ReqOnly

\* the engine reaches the end of the request: its payload has ended or is
\* skipped
HwComplete(i) ==
    /\ i \in DOMAIN rq.r /\ rq.r[i].st = "executing"
    /\ rq.r[i].skip \/ ~rq.r[i].spin
    /\ rq' = [rq EXCEPT !.r[i].st = "complete"]
    /\ ReqOnly

\* the breadcrumbs, or a waiter, signal the fence of a completed request
SignalFence(i) ==
    /\ i \in DOMAIN rq.r /\ rq.r[i].st = "complete" /\ ~rq.r[i].sig
    /\ rq' = [rq EXCEPT !.r[i].sig = TRUE]
    /\ ReqOnly

NextReq ==
    \/ \E c \in ReqCtxs, spin \in BOOLEAN : CreateRequest(c, spin)
    \/ \E a, b \in ReqIds : AwaitFence(b, a)
    \/ \E i \in ReqIds, e \in ReqErrs : CancelRequest(i, e)
    \/ \E i \in ReqIds : AddRequest(i)
    \/ \E i \in ReqIds : HwStart(i)
    \/ \E i \in ReqIds : HwComplete(i)
    \/ \E i \in ReqIds : SignalFence(i)

(***************************************************************************)
(* Finding the active request of a context: gt/intel_context.c,            *)
(* __intel_context_find_active_request, walking ce->timeline->requests     *)
(* under rcu_read_lock. The requests of the timeline being submitted,      *)
(* completed, retired and released meanwhile are the environment.          *)
(***************************************************************************)

\* number of requests added to the timeline in one run
MaxTl == 2

\* number of __intel_context_find_active_request calls of one run
MaxFinds == 1

\* an empty timeline, and nobody looking
InitFind ==
    fa = [ reqs |-> <<>>,     \* the requests, in the order they were added
           pc |-> "idle", get_ref |-> FALSE,
           cur |-> 0,         \* rq of the walk; 0 is the head of the list
           active |-> 0,      \* active of the walk; 0 is NULL
           ret |-> 0, nfind |-> 0,
           stale |-> FALSE,   \* a request was read after it had been freed
           zero |-> FALSE ]   \* a reference was taken on a count of zero

\* i915_request_add: the request joins the tail of the timeline, which
\* holds a reference to it; the caller may hold one of its own; mask is
\* rq->execution_mask & ce->engine->mask
TlAdd(mask, held) ==
    /\ Len(fa.reqs) < MaxTl
    /\ fa' = [fa EXCEPT !.reqs = Append(@,
                 [ complete |-> FALSE, act |-> FALSE, linked |-> TRUE,
                   refs |-> IF held THEN 2 ELSE 1, held |-> held,
                   freed |-> FALSE, sat |-> FALSE, mask |-> mask ])]
    /\ FindOnly

\* the request is submitted to the hardware: I915_FENCE_FLAG_ACTIVE
TlSubmit(i) ==
    /\ i \in DOMAIN fa.reqs /\ ~fa.reqs[i].act /\ ~fa.reqs[i].complete
    /\ \A j \in 1 .. i - 1 : fa.reqs[j].act \/ fa.reqs[j].complete
    /\ fa' = [fa EXCEPT !.reqs[i].act = TRUE]
    /\ FindOnly

\* the hardware completes the request
TlComplete(i) ==
    /\ i \in DOMAIN fa.reqs /\ fa.reqs[i].act /\ ~fa.reqs[i].complete
    /\ \A j \in 1 .. i - 1 : fa.reqs[j].complete
    /\ fa' = [fa EXCEPT !.reqs[i].complete = TRUE]
    /\ FindOnly

\* a reference to request q is dropped; the last one frees the request
RequestPut(q) ==
    [q EXCEPT !.refs = @ - 1, !.freed = (q.refs = 1)]

\* i915_request_retire: the oldest request of the timeline, completed, is
\* taken off the engine and off the list, its own link left as it was, and
\* the reference of the timeline is dropped
TlRetire(i) ==
    /\ i \in DOMAIN fa.reqs /\ fa.reqs[i].linked /\ fa.reqs[i].complete
    /\ \A j \in 1 .. i - 1 : ~fa.reqs[j].linked
    /\ fa' = [fa EXCEPT !.reqs[i] =
                 [RequestPut(@) EXCEPT !.linked = FALSE, !.act = FALSE]]
    /\ FindOnly

\* i915_request_put by the caller that held a reference
TlPut(i) ==
    /\ i \in DOMAIN fa.reqs /\ fa.reqs[i].held
    /\ fa' = [fa EXCEPT !.reqs[i] = [RequestPut(@) EXCEPT !.held = FALSE]]
    /\ FindOnly

\* list_entry(pos->link.prev): the request before request i on the list,
\* 0 at the head. A request taken off the list was the first of it, and
\* its link still points to the head.
PrevEntry(i) ==
    IF i > 1 /\ fa.reqs[i].linked /\ fa.reqs[i - 1].linked
    THEN i - 1 ELSE 0

\* the last request of the list, 0 if the list is empty
LastEntry ==
    IF fa.reqs # <<>> /\ fa.reqs[Len(fa.reqs)].linked
    THEN Len(fa.reqs) ELSE 0

\* rcu_read_lock(), and the walk starts at the tail of the list
FindBegin(rq_get_ref) ==
    /\ fa.pc = "idle" /\ fa.nfind < MaxFinds
    /\ fa' = [fa EXCEPT !.get_ref = rq_get_ref, !.active = 0,
                        !.cur = LastEntry,
                        !.pc = IF LastEntry = 0 THEN "get" ELSE "check"]
    /\ FindOnly

\* if (__i915_request_is_complete(rq)) break;
FindCheck ==
    /\ fa.pc = "check"
    /\ fa' = [fa EXCEPT
                !.stale = @ \/ fa.reqs[fa.cur].freed,
                !.pc = IF fa.reqs[fa.cur].complete THEN "get" ELSE "pick"]
    /\ FindOnly

\* the rest of the loop body: a request not for this engine is passed
\* over, an active one becomes the candidate; then on to the previous
\* entry of the list
FindPick ==
    /\ fa.pc = "pick"
    /\ LET q == fa.reqs[fa.cur]
           prev == PrevEntry(fa.cur)
       IN  fa' = [fa EXCEPT
                    !.stale = @ \/ q.freed,
                    !.active = IF q.mask /\ q.act THEN fa.cur ELSE @,
                    !.cur = prev,
                    !.pc = IF prev = 0 THEN "get" ELSE "check"]
    /\ FindOnly

\* i915_request_get_rcu, as intel_context_throttle takes its reference:
\* no reference, and NULL, if the count has dropped to zero
RequestGet_Rcu(q, saturate) ==
    IF q.refs = 0 THEN q ELSE [q EXCEPT !.refs = @ + 1]

\* i915_request_get(active): kref_get, which increments the count whatever
\* it is; on a count of zero the refcount either becomes one or saturates
RequestGet(q, saturate) ==
    IF q.refs = 0 /\ saturate THEN [q EXCEPT !.sat = TRUE]
    ELSE [q EXCEPT !.refs = @ + 1]

\* if (rq_get_ref && active) active = i915_request_get(active);
\* rcu_read_unlock(); return active;
FindGet ==
    /\ fa.pc = "get"
    /\ \E saturate \in BOOLEAN :
          LET take == fa.get_ref /\ fa.active # 0
              q == fa.reqs[fa.active]
              got == RequestGet(q, saturate)
              kept == take /\ got # q
          IN  fa' = [fa EXCEPT
                       !.reqs = IF take THEN [@ EXCEPT ![fa.active] = got]
                                ELSE @,
                       !.stale = @ \/ (take /\ q.freed),
                       !.zero = @ \/ (kept /\ q.refs = 0),
                       !.ret = IF take /\ ~kept THEN 0 ELSE fa.active,
                       !.pc = "idle", !.nfind = @ + 1]
    /\ FindOnly

NextFind ==
    \/ \E mask, held \in BOOLEAN : TlAdd(mask, held)
    \/ \E i \in 1 .. MaxTl : TlSubmit(i)
    \/ \E i \in 1 .. MaxTl : TlComplete(i)
    \/ \E i \in 1 .. MaxTl : TlRetire(i)
    \/ \E i \in 1 .. MaxTl : TlPut(i)
    \/ \E rq_get_ref \in BOOLEAN : FindBegin(rq_get_ref)
    \/ FindCheck
    \/ FindPick
    \/ FindGet

(***************************************************************************)
(* Waiting on a user fence: gem/i915_gem_wait_user_fence.c,                *)
(* i915_gem_wait_user_fence_ioctl. Time is counted in nanoseconds and in   *)
(* jiffies of NsPerJiffy nanoseconds; the memory location, the signals     *)
(* and the clocks are the environment.                                     *)
(***************************************************************************)

\* nanoseconds in one jiffy: NSEC_PER_SEC / HZ
NsPerJiffy == 2

\* MAX_JIFFY_OFFSET: the longest timeout in jiffies
MaxJiffyOffset == 2

\* MAX_SCHEDULE_TIMEOUT: sleep without a timer
MAX_SCHEDULE_TIMEOUT == MaxJiffyOffset + 2

\* the arguments that fail validation, by the check that refuses them:
\* unknown flags, unknown op, empty mask, misaligned address
UfBadKinds == {"flags", "op", "mask", "align"}

\* arg->timeout in nanoseconds: negative, zero, below a jiffy, some
\* jiffies, and more than MAX_JIFFY_OFFSET jiffies
UfTimeouts ==
    {-1, 0, 1, NsPerJiffy + 1, NsPerJiffy * (MaxJiffyOffset + 1)}

\* the arguments, and what the call meets besides them: the jiffies
\* drm_timeout_abs_to_jiffies makes of an absolute timeout, the context
\* lookup, the user extensions, the allocation of the engine waits
UfArgs ==
    [ bad : {"none"}, soft : BOOLEAN, abstime : BOOLEAN,
      timeout : UfTimeouts, abs_jiffies : 0 .. MaxJiffyOffset,
      ctx_found : BOOLEAN, ext_err : BOOLEAN, nomem : BOOLEAN ]
    \cup [ bad : UfBadKinds, soft : {FALSE}, abstime : {FALSE},
           timeout : {1}, abs_jiffies : {0}, ctx_found : {TRUE},
           ext_err : {FALSE}, nomem : {FALSE} ]

\* the call not made yet; the location is mapped and does not satisfy the
\* comparison
InitUf ==
    uf = [ pc |-> "idle", arg |-> <<>>, timeout |-> 0,
           present |-> TRUE,   \* the page of the user address is mapped
           cond |-> FALSE,     \* the location satisfies the comparison
           sig |-> FALSE,      \* signal_pending
           left |-> 0,         \* arg->timeout as the call leaves it
           ret |-> "none", why |-> "none" ]

\* the user or the GPU writes the location
UfMemWrite ==
    /\ uf' = [uf EXCEPT !.cond = ~@]
    /\ UfOnly

\* the page of the location is unmapped, or mapped again
UfRemap ==
    /\ uf' = [uf EXCEPT !.present = ~@]
    /\ UfOnly

\* a signal is sent to the waiting task
UfSignal ==
    /\ ~uf.sig
    /\ uf' = [uf EXCEPT !.sig = TRUE]
    /\ UfOnly

\* ufence_fault: get_user fails
ufence_fault(u) == ~u.present

\* ufence_compare: FALSE if the location cannot be copied, else the
\* comparison of the masked values
ufence_compare(u) == u.present /\ u.cond

Min(a, b) == IF a < b THEN a ELSE b

nsecs_to_jiffies(n) == n \div NsPerJiffy

\* nsecs_to_jiffies_timeout, HZ dividing NSEC_PER_SEC
nsecs_to_jiffies_timeout(n) ==
    Min(MaxJiffyOffset, nsecs_to_jiffies(n) + 1)

to_wait_timeout(a) ==
    IF a.abstime THEN a.abs_jiffies
    ELSE IF a.timeout < 0 THEN MAX_SCHEDULE_TIMEOUT
    ELSE IF a.timeout = 0 THEN 0
    ELSE nsecs_to_jiffies_timeout(a.timeout)

\* the nanoseconds ktime may show for a sleep during which k jiffies were
\* counted, the first of them begun before the sleep
ElapsedNs(k) ==
    IF k = 0 THEN {0, NsPerJiffy - 1}
    ELSE {(k - 1) * NsPerJiffy + 1, k * NsPerJiffy}

\* the end of the ioctl without the conversion to -EAGAIN
UfFinishBody_NoAgain(a, err, elapsed) ==
    [ret |-> err, timeout |-> a.timeout]

\* the end of the ioctl, past the loop: a relative timeout is reduced by
\* the time elapsed, what is left below a jiffy on -ETIME is dropped, and
\* -ETIME with time left becomes -EAGAIN
UfFinishBody(a, err, elapsed) ==
    IF ~a.abstime /\ a.timeout > 0
    THEN LET t1 == IF a.timeout - elapsed < 0 THEN 0
                   ELSE a.timeout - elapsed
             t2 == IF err = "ETIME" /\ nsecs_to_jiffies(t1) = 0 THEN 0
                   ELSE t1
         IN  [ret |-> IF err = "ETIME" /\ t2 # 0 THEN "EAGAIN" ELSE err,
              timeout |-> t2]
    ELSE [ret |-> err, timeout |-> a.timeout]

\* the loop is left with err, for the reason why; the ioctl returns
UfFinish(err, why) ==
    \E elapsed \in ElapsedNs(IF uf.timeout = MAX_SCHEDULE_TIMEOUT THEN 0
                             ELSE to_wait_timeout(uf.arg) - uf.timeout) :
        LET f == UfFinishBody(uf.arg, err, elapsed)
        IN  uf' = [uf EXCEPT !.pc = "done", !.ret = f.ret, !.why = why,
                             !.left = f.timeout]

\* the ioctl returns err before the loop, for the reason why
UfReturn(a, err, why) ==
    uf' = [uf EXCEPT !.pc = "done", !.arg = a, !.ret = err, !.why = why,
                     !.timeout = 0, !.left = a.timeout]

\* i915_gem_wait_user_fence_ioctl up to the loop: the arguments are
\* validated, the context looked up unless the wait is soft, the
\* extensions read, the page faulted in, the location compared, the
\* timeout converted, the waits added
UfEnter(a) ==
    /\ uf.pc = "idle"
    /\ IF a.bad # "none" THEN UfReturn(a, "EINVAL", "invalid")
       ELSE IF ~a.soft /\ ~a.ctx_found THEN UfReturn(a, "ENOENT", "noent")
       ELSE IF a.ext_err THEN UfReturn(a, "EINVAL", "invalid")
       ELSE IF ufence_fault(uf) THEN UfReturn(a, "EFAULT", "fault")
       ELSE IF ufence_compare(uf) THEN UfReturn(a, "0", "satisfied")
       ELSE IF to_wait_timeout(a) = 0 THEN UfReturn(a, "ETIME", "timeout")
       ELSE IF ~a.soft /\ a.nomem THEN UfReturn(a, "ENOMEM", "nomem")
       ELSE uf' = [uf EXCEPT !.pc = "loop", !.arg = a,
                             !.timeout = to_wait_timeout(a),
                             !.ret = "none", !.why = "none"]
    /\ UfOnly

\* the head of the loop: the comparison, the timeout, the signal, in that
\* order; else the task goes to sleep
UfLoop ==
    /\ uf.pc = "loop"
    /\ IF ufence_compare(uf) THEN UfFinish("0", "satisfied")
       ELSE IF uf.timeout = 0 THEN UfFinish("ETIME", "timeout")
       ELSE IF uf.sig THEN UfFinish("ERESTARTSYS", "signal")
       ELSE uf' = [uf EXCEPT !.pc = "sleep"]
    /\ UfOnly

\* timeout = io_schedule_timeout(timeout): the task is woken with part of
\* the timeout left, or the timer expires; then the page is faulted in
UfSleep ==
    /\ uf.pc = "sleep"
    /\ \E left \in 0 .. uf.timeout :
          /\ uf.timeout = MAX_SCHEDULE_TIMEOUT => left = uf.timeout
          /\ LET u == [uf EXCEPT !.timeout = left]
             IN  IF ufence_fault(u)
                 THEN \E elapsed \in ElapsedNs(
                            IF left = MAX_SCHEDULE_TIMEOUT THEN 0
                            ELSE to_wait_timeout(uf.arg) - left) :
                        LET f == UfFinishBody(uf.arg, "EFAULT", elapsed)
                        IN  uf' = [u EXCEPT !.pc = "done", !.ret = f.ret,
                                            !.why = "fault",
                                            !.left = f.timeout]
                 ELSE uf' = [u EXCEPT !.pc = "loop"]
    /\ UfOnly

NextUf ==
    \/ UfMemWrite
    \/ UfRemap
    \/ UfSignal
    \/ \E a \in UfArgs : UfEnter(a)
    \/ UfLoop
    \/ UfSleep

(***************************************************************************)
(* Scheduling policy of a context: gt/intel_context.c,                     *)
(* intel_context_update_schedule_policy and the disable / reset of the     *)
(* preemption timeout. The callers are not in the sources: any thread may  *)
(* call any of the three at any time, a reset only for a disable that has  *)
(* returned.                                                               *)
(***************************************************************************)

\* number of disables of the preemption timeout not yet reset
MaxDisables == 2

\* values of engine->props.preempt_timeout_ms and timeslice_duration_ms
PolVals == {1, 2}

\* intel_context_init_schedule_policy(): the count zero, the policy taken
\* from the engine; guc is intel_uc_wants_guc_submission
InitPol(guc, p, s) ==
    pol = [ guc |-> guc,
            props |-> [preempt_timeout_ms |-> p, timeslice_duration_ms |-> s],
            preempt_disable_count |-> 0,
            preempt_timeout_ms |-> p, timeslice_duration_ms |-> s,
            pc |-> [t \in Threads |-> "idle"],
            held |-> 0, upd |-> FALSE, late |-> FALSE ]

\* __intel_context_set_preemption_timeout(ce, ms): nothing without GuC
\* submission
set_preemption_timeout(x, ms) ==
    IF x.guc THEN [x EXCEPT !.preempt_timeout_ms = ms] ELSE x

\* intel_context_update_schedule_policy(), line 384: atomic_read(count),
\* called after the engine's properties were stored
UpdRead(t, p, s) ==
    /\ pol.pc[t] = "idle"
    /\ pol' = [pol EXCEPT
                 !.props = [preempt_timeout_ms |-> p,
                            timeslice_duration_ms |-> s],
                 !.upd = TRUE,
                 !.pc[t] = IF pol.preempt_disable_count # 0
                           THEN "idle" ELSE "upd_write"]
    /\ PolOnly

\* lines 387-390: the policy is overwritten from engine->props
UpdWrite(t) ==
    /\ pol.pc[t] = "upd_write"
    /\ pol' = [pol EXCEPT
                 !.preempt_timeout_ms = pol.props.preempt_timeout_ms,
                 !.timeslice_duration_ms = pol.props.timeslice_duration_ms,
                 !.late = @ \/ pol.preempt_disable_count # 0,
                 !.pc[t] = "idle"]
    /\ PolOnly

\* intel_context_disable_preemption_timeout(), line 427:
\* atomic_inc_return(count) == 1
DisInc(t) ==
    /\ pol.pc[t] = "idle"
    /\ pol.held + Cardinality({u \in Threads : pol.pc[u] = "dis_set"})
          < MaxDisables
    /\ pol' = [pol EXCEPT
                 !.preempt_disable_count = @ + 1,
                 !.held = IF pol.preempt_disable_count = 0 THEN @ ELSE @ + 1,
                 !.pc[t] = IF pol.preempt_disable_count = 0
                           THEN "dis_set" ELSE "idle"]
    /\ PolOnly

\* line 428: __intel_context_set_preemption_timeout(ce, 0), and the return
DisSet(t) ==
    /\ pol.pc[t] = "dis_set"
    /\ pol' = [set_preemption_timeout(pol, 0) EXCEPT
                 !.held = @ + 1, !.pc[t] = "idle"]
    /\ PolOnly

\* intel_context_reset_preemption_timeout(), line 418:
\* atomic_dec_and_test(count), for a disable that has returned
RstDec(t) ==
    /\ pol.pc[t] = "idle"
    /\ pol.held > 0
    /\ pol' = [pol EXCEPT
                 !.preempt_disable_count = @ - 1,
                 !.held = @ - 1,
                 !.pc[t] = IF pol.preempt_disable_count = 1
                           THEN "rst_set" ELSE "idle"]
    /\ PolOnly

\* lines 419-420: __intel_context_set_preemption_timeout(ce,
\* engine->props.preempt_timeout_ms)
RstSet(t) ==
    /\ pol.pc[t] = "rst_set"
    /\ pol' = [set_preemption_timeout(pol, pol.props.preempt_timeout_ms)
                 EXCEPT !.pc[t] = "idle"]
    /\ PolOnly

NextPol ==
    \/ \E t \in Threads, p \in PolVals, s \in PolVals : UpdRead(t, p, s)
    \/ \E t \in Threads : UpdWrite(t)
    \/ \E t \in Threads : DisInc(t)
    \/ \E t \in Threads : DisSet(t)
    \/ \E t \in Threads : RstDec(t)
    \/ \E t \in Threads : RstSet(t)


(***************************************************************************)
(* Parent and child contexts of a parallel submission:                     *)
(* gt/intel_context.c, intel_context_bind_parent_child. The callers are    *)
(* not in the sources: any two contexts may be passed in any order.        *)
(* intel_context_is_child, intel_context_is_parent (gt/intel_context.h)    *)
(* and GEM_BUG_ON (i915_gem.h) are read off their uses: a child has        *)
(* parallel.parent set, a parent has parallel.number_children non-zero,    *)
(* GEM_BUG_ON stops the kernel in a build with CONFIG_DRM_I915_DEBUG_GEM   *)
(* and is compiled out otherwise.                                          *)
(***************************************************************************)

\* the contexts that may be bound, and the number of bind calls of one run
Ctxs == {1, 2, 3}

MaxBinds == 3

\* parallel.parent of a context that was never bound as a child
NullCtx == 0

\* intel_context_init(), line 463: no parent, an empty child list; debug is
\* CONFIG_DRM_I915_DEBUG_GEM, pinned the contexts that are pinned
InitFam(debug, pinned) ==
    fam = [ debug |-> debug,
            pinned |-> pinned,
            parent |-> [c \in Ctxs |-> NullCtx],
            number_children |-> [c \in Ctxs |-> 0],
            child_index |-> [c \in Ctxs |-> 0],
            child_list |-> [c \in Ctxs |-> <<>>],
            nbind |-> 0, bug |-> FALSE, misuse |-> FALSE ]

intel_context_is_child(x, c) == x.parent[c] # NullCtx

intel_context_is_parent(x, c) == x.number_children[c] # 0

\* lines 640-644: what the five GEM_BUG_ONs assert of a call
BindAsserts(x, parent, child) ==
    /\ ~x.pinned[parent]
    /\ ~intel_context_is_child(x, parent)
    /\ ~x.pinned[child]
    /\ ~intel_context_is_child(x, child)
    /\ ~intel_context_is_parent(x, child)

\* mutant: the child is put on the list without its parent pointer
BindLinks_NoParent(x, parent, child) ==
    [x EXCEPT !.child_index[child] = x.number_children[parent],
              !.number_children[parent] = @ + 1,
              !.child_list[parent] = Append(@, child)]

\* lines 646-649: the index, the count, the list, the parent pointer
BindLinks(x, parent, child) ==
    [x EXCEPT !.child_index[child] = x.number_children[parent],
              !.number_children[parent] = @ + 1,
              !.child_list[parent] = Append(@, child),
              !.parent[child] = parent]

\* intel_context_bind_parent_child(parent, child): an assertion that fails
\* stops a debug build; any other build goes on with the links
BindParentChild(parent, child) ==
    /\ ~fam.bug
    /\ fam.nbind < MaxBinds
    /\ fam' = IF fam.debug /\ ~BindAsserts(fam, parent, child)
              THEN [fam EXCEPT !.bug = TRUE, !.nbind = @ + 1]
              ELSE [BindLinks(fam, parent, child) EXCEPT
                      !.nbind = @ + 1,
                      !.misuse = @ \/ ~BindAsserts(fam, parent, child)
                                   \/ parent = child]
    /\ FamOnly

NextFam ==
    \E parent \in Ctxs, child \in Ctxs : BindParentChild(parent, child)

(***************************************************************************)
(* Userptr objects: gem/i915_gem_userptr.c,                                *)
(* i915_gem_object_userptr_submit_init, _submit_done and the invalidate    *)
(* callback of the object's mmu interval notifier. The interval notifier   *)
(* itself is the kernel's: mmu_interval_read_begin returns its sequence    *)
(* number, mmu_interval_set_seq advances it, mmu_interval_read_retry       *)
(* compares. A page vector is tagged with the sequence number in force     *)
(* when get_user_pages_fast pinned it. The object is bound to no faultable *)
(* vm, so the invalidate work is never queued.                             *)
(***************************************************************************)

\* invalidations of the object's range in one run
MaxInval == 2

\* obj->userptr.notifier_seq of a new object (line 682)
ULONG_MAX == -1

\* a NULL page vector
NoPvec == -1

SubmitIdle ==
    [pc |-> "idle", notifier_seq |-> 0, pvec |-> NoPvec, ret |-> "0",
     stale |-> FALSE, busy |-> FALSE, inst |-> FALSE, rel |-> FALSE]

\* the object after i915_gem_userptr_ioctl: no pages, no page reference
InitUp ==
    up = [ seq |-> 0,
           notifier_seq |-> ULONG_MAX,
           pvec |-> NoPvec,
           page_ref |-> 0,
           lock |-> 0,
           t |-> [t \in Threads |-> SubmitIdle] ]

\* mmu_interval_read_retry(&obj->userptr.notifier, seq)
mmu_interval_read_retry(x, seq) == x.seq # seq

\* i915_gem_object_userptr_drop_ref(): the last reference frees the pages
userptr_drop_ref(x) ==
    [x EXCEPT !.page_ref = @ - 1,
              !.pvec = IF x.page_ref = 1 THEN NoPvec ELSE @]

\* i915_gem_object_userptr_unbind(): the pages of the object, if it has
\* any, are put (i915_gem_userptr_put_pages drops their reference)
userptr_unbind(x) ==
    IF x.page_ref > 0 THEN userptr_drop_ref(x) ELSE x

\* out: (lines 489-492) a page vector still held by the call is released
SubmitReturn(x, t, ret) ==
    [x EXCEPT !.t[t].pc = "done", !.t[t].ret = ret,
              !.t[t].rel = @ \/ x.t[t].pvec # NoPvec,
              !.t[t].pvec = NoPvec]

\* lines 409-418: the mm check and mmu_interval_read_begin
SubmitBegin(t, sameMm) ==
    /\ up.t[t].pc = "idle"
    /\ up' = IF ~sameMm
             THEN [up EXCEPT !.t[t].pc = "done", !.t[t].ret = "EFAULT"]
             ELSE [up EXCEPT !.t[t].pc = "ww", !.t[t].notifier_seq = up.seq]
    /\ UpOnly

\* lines 420-434: under the object lock, stale or missing pages are unbound
SubmitUnbind(t, err) ==
    /\ up.t[t].pc = "ww"
    /\ up.lock = 0
    /\ LET stale == up.t[t].notifier_seq # up.notifier_seq
                       \/ up.pvec = NoPvec
       IN  up' = IF stale /\ err # "0"
                 THEN SubmitReturn(up, t, err)
                 ELSE [(IF stale THEN userptr_unbind(up) ELSE up)
                          EXCEPT !.t[t].pc = "gup"]
    /\ UpOnly

\* lines 436-463: kvmalloc_array and get_user_pages_fast
SubmitGup(t, err) ==
    /\ up.t[t].pc = "gup"
    /\ up' = IF err # "0"
             THEN SubmitReturn(up, t, err)
             ELSE [up EXCEPT !.t[t].pc = "lock", !.t[t].pvec = up.seq]
    /\ UpOnly

\* lines 465-467: i915_gem_object_lock_interruptible(obj, NULL)
SubmitLock(t, err) ==
    /\ up.t[t].pc = "lock"
    /\ up.lock = 0
    /\ up' = IF err # "0"
             THEN SubmitReturn(up, t, err)
             ELSE [up EXCEPT !.t[t].pc = "check", !.lock = t]
    /\ UpOnly

\* mutant: the pages are installed without asking the notifier
SubmitCheck_NoRetry(t) ==
    /\ up.t[t].pc = "check"
    /\ up' = [up EXCEPT !.t[t].pc = "install",
                        !.t[t].stale = up.t[t].notifier_seq # up.seq,
                        !.t[t].busy = up.page_ref # 0]
    /\ UpOnly

\* lines 469-474: mmu_interval_read_retry with the sampled sequence number,
\* or with the object's if its pages are in use
SubmitCheck(t) ==
    /\ up.t[t].pc = "check"
    /\ LET seq == IF up.page_ref = 0
                  THEN up.t[t].notifier_seq ELSE up.notifier_seq
       IN  up' = [up EXCEPT
                    !.t[t].pc = IF mmu_interval_read_retry(up, seq)
                                THEN "out_unlock" ELSE "install",
                    !.t[t].ret = IF mmu_interval_read_retry(up, seq)
                                 THEN "EAGAIN" ELSE "0",
                    !.t[t].stale = up.t[t].notifier_seq # up.seq,
                    !.t[t].busy = up.page_ref # 0]
    /\ UpOnly

\* lines 476-483: the first user installs its pages and gets them
\* (i915_gem_userptr_get_pages takes a page reference unless it fails);
\* any other call installs nothing
SubmitInstall(t, err) ==
    /\ up.t[t].pc = "install"
    /\ up' = IF up.page_ref = 0
             THEN [up EXCEPT
                     !.pvec = up.t[t].pvec,
                     !.notifier_seq = up.t[t].notifier_seq,
                     !.page_ref = IF err = "0" THEN 1 ELSE 0,
                     !.t[t].pvec = NoPvec,
                     !.t[t].inst = TRUE,
                     !.t[t].ret = err,
                     !.t[t].pc = "out_unlock"]
             ELSE [up EXCEPT !.t[t].pc = "out_unlock"]
    /\ UpOnly

\* lines 485-494: unlock, release what was not installed, return
SubmitOut(t) ==
    /\ up.t[t].pc = "out_unlock"
    /\ up' = [SubmitReturn(up, t, up.t[t].ret) EXCEPT !.lock = 0]
    /\ UpOnly

\* i915_gem_object_userptr_submit_done(), after a submit_init that
\* returned 0
SubmitDone(t) ==
    /\ up.t[t].pc = "done"
    /\ up.t[t].ret = "0"
    /\ up' = [up EXCEPT
                !.t[t].pc = "submitted",
                !.t[t].ret = IF mmu_interval_read_retry(up, up.notifier_seq)
                             THEN "EAGAIN" ELSE "0"]
    /\ UpOnly

\* i915_gem_userptr_invalidate(), line 175: mmu_interval_set_seq under the
\* notifier lock; the object lock is not taken
UserptrInvalidate ==
    /\ up.seq < MaxInval
    /\ up' = [up EXCEPT !.seq = @ + 1]
    /\ UpOnly

NextUp ==
    \/ \E t \in Threads, sameMm \in BOOLEAN : SubmitBegin(t, sameMm)
    \/ \E t \in Threads, err \in {"0", "EBUSY"} : SubmitUnbind(t, err)
    \/ \E t \in Threads, err \in {"0", "ENOMEM"} : SubmitGup(t, err)
    \/ \E t \in Threads, err \in {"0", "EINTR"} : SubmitLock(t, err)
    \/ \E t \in Threads : SubmitCheck(t)
    \/ \E t \in Threads, err \in {"0", "ENOMEM"} : SubmitInstall(t, err)
    \/ \E t \in Threads : SubmitOut(t)
    \/ \E t \in Threads : SubmitDone(t)
    \/ UserptrInvalidate

(***************************************************************************)
(* Creation of a userptr object: gem/i915_gem_userptr.c,                   *)
(* i915_gem_userptr_ioctl. Once the notifier is inserted the invalidate    *)
(* callback may run on the object; once the handle exists any thread of    *)
(* the process may use it, handles being small predictable numbers: look   *)
(* the object up for a submission (submit_init flushes the invalidate      *)
(* work, line 418) or close the handle.                                    *)
(***************************************************************************)

\* the ioctl has not been called; no object
InitUc ==
    uc = [ pc |-> "idle", ret |-> "0",
           ref |-> 0, notifier |-> FALSE, handle |-> FALSE,
           work |-> FALSE, freed |-> FALSE,
           touched |-> FALSE, uaf |-> FALSE,
           obs |-> [t \in Threads |-> "idle"],
           flushed |-> [t \in Threads |-> "none"],
           cb |-> "idle" ]

\* i915_gem_object_put(): the last reference frees the object, which
\* removes its notifier
object_put(x) ==
    [x EXCEPT !.ref = @ - 1,
              !.freed = x.ref = 1,
              !.notifier = @ /\ x.ref # 1]

\* lines 636-665: the checks of the arguments; lines 668-685: the object is
\* allocated with the caller's reference
IoctlAlloc(err) ==
    /\ uc.pc = "idle"
    /\ uc' = IF err # "0"
             THEN [uc EXCEPT !.pc = "done", !.ret = err]
             ELSE [uc EXCEPT !.pc = "notifier", !.ref = 1]
    /\ UcOnly

\* line 690: i915_gem_userptr_init__mmu_notifier
IoctlNotifier(err) ==
    /\ uc.pc = "notifier"
    /\ uc' = [uc EXCEPT !.pc = "handle", !.ret = err,
                        !.notifier = err = "0"]
    /\ UcOnly

\* lines 691-692: drm_gem_handle_create, the handle takes a reference
IoctlHandle(err) ==
    /\ uc.pc = "handle"
    /\ uc' = IF uc.ret # "0"
             THEN [uc EXCEPT !.pc = "put"]
             ELSE [uc EXCEPT !.pc = "put", !.ret = err,
                             !.handle = err = "0",
                             !.ref = IF err = "0" THEN @ + 1 ELSE @]
    /\ UcOnly

\* lines 694-697: the reference of the allocation is dropped
IoctlPut ==
    /\ uc.pc = "put"
    /\ uc' = [object_put(uc) EXCEPT
                !.pc = IF uc.ret # "0" THEN "done" ELSE "init_work"]
    /\ UcOnly

\* lines 699-701: INIT_WORK on the object, the handle is returned
IoctlInitWork ==
    /\ uc.pc = "init_work"
    /\ uc' = [uc EXCEPT !.pc = "done", !.work = TRUE,
                        !.touched = TRUE, !.uaf = uc.freed]
    /\ UcOnly

\* another thread of the process looks the handle up for a submission
ObsLookup(t) ==
    /\ uc.handle /\ uc.obs[t] = "idle"
    /\ uc' = [uc EXCEPT !.obs[t] = "flush", !.ref = @ + 1]
    /\ UcOnly

\* i915_gem_object_userptr_submit_init(), line 418: flush_work on the
\* invalidate work of the object
ObsFlush(t) ==
    /\ uc.obs[t] = "flush"
    /\ uc' = [uc EXCEPT !.obs[t] = "put",
                        !.flushed[t] = IF uc.work THEN "initialised"
                                       ELSE "uninitialised"]
    /\ UcOnly

\* the submission is over, its reference is dropped
ObsPut(t) ==
    /\ uc.obs[t] = "put"
    /\ uc' = [object_put(uc) EXCEPT !.obs[t] = "done"]
    /\ UcOnly

\* another thread closes the handle
HandleClose ==
    /\ uc.handle
    /\ uc' = [object_put(uc) EXCEPT !.handle = FALSE]
    /\ UcOnly

\* i915_gem_userptr_invalidate(), line 159: kref_get_unless_zero on the
\* object of an inserted notifier
CbGet ==
    /\ uc.notifier /\ uc.cb = "idle"
    /\ uc' = [uc EXCEPT !.cb = "sync", !.ref = @ + 1]
    /\ UcOnly

\* lines 205-211: i915_sync_all_vmas and i915_gem_object_put
CbPut ==
    /\ uc.cb = "sync"
    /\ uc' = [object_put(uc) EXCEPT !.cb = "idle"]
    /\ UcOnly

NextUc ==
    \/ \E err \in {"0", "EINVAL", "ENOMEM"} : IoctlAlloc(err)
    \/ \E err \in {"0", "ENOMEM"} : IoctlNotifier(err)
    \/ \E err \in {"0", "ENOMEM"} : IoctlHandle(err)
    \/ IoctlPut
    \/ IoctlInitWork
    \/ \E t \in Threads : ObsLookup(t)
    \/ \E t \in Threads : ObsFlush(t)
    \/ \E t \in Threads : ObsPut(t)
    \/ HandleClose
    \/ CbGet
    \/ CbPut

(***************************************************************************)
(* Installing the interrupt handler and disabling interrupts at runtime:   *)
(* i915_irq.c, intel_irq_install, intel_irq_uninstall,                     *)
(* intel_runtime_pm_disable_interrupts, intel_runtime_pm_enable_interrupts *)
(* and the entry of the top-level handlers. The driver calls the four      *)
(* functions one after the other; the handler is invoked at any time       *)
(* while it is registered (the line is shared, IRQF_SHARED), one           *)
(* invocation at a time.                                                   *)
(***************************************************************************)

\* calls of intel_irq_install in one run
MaxInstalls == 2

\* the device after intel_irq_init(): nothing enabled, no handler;
\* quiesce_gpu is the module parameter
InitPm(quiesce_gpu) ==
    pm = [ quiesce_gpu |-> quiesce_gpu,
           irqs_enabled |-> FALSE,
           drm_irq_enabled |-> FALSE,
           registered |-> FALSE,
           pc |-> "idle", last |-> "none", ret |-> "0", ninst |-> 0,
           h |-> "idle", hret |-> "none",
           disabled |-> FALSE, late |-> FALSE, rets |-> {} ]

\* bool intel_irqs_enabled()
intel_irqs_enabled(x) == x.irqs_enabled

\* intel_irq_install(), lines 3682-3688: the flags are set before the
\* handler is requested
IrqInstallBegin ==
    /\ pm.pc = "idle" /\ ~pm.registered
    /\ pm.ninst < MaxInstalls
    /\ pm' = [pm EXCEPT !.pc = "request_irq", !.ninst = @ + 1,
                        !.irqs_enabled = TRUE, !.drm_irq_enabled = TRUE,
                        !.disabled = FALSE, !.rets = {}]
    /\ PmOnly

\* lines 3690-3703: request_irq; on failure only drm.irq_enabled is reset
IrqInstallRequest(err) ==
    /\ pm.pc = "request_irq"
    /\ pm' = IF err # "0"
             THEN [pm EXCEPT !.pc = "idle", !.last = "install",
                             !.ret = err, !.drm_irq_enabled = FALSE]
             ELSE [pm EXCEPT !.pc = "idle", !.last = "install",
                             !.ret = "0", !.registered = TRUE]
    /\ PmOnly

\* intel_irq_uninstall(): nothing if drm.irq_enabled is not set; free_irq
\* waits for a running handler
IrqUninstall ==
    /\ pm.pc = "idle"
    /\ pm.drm_irq_enabled => pm.h = "idle"
    /\ pm' = IF ~pm.drm_irq_enabled
             THEN [pm EXCEPT !.last = "uninstall"]
             ELSE [pm EXCEPT !.last = "uninstall",
                             !.drm_irq_enabled = FALSE,
                             !.registered = FALSE,
                             !.irqs_enabled = FALSE]
    /\ PmOnly

\* intel_runtime_pm_disable_interrupts(), lines 3754-3758: nothing with
\* quiesce_gpu, else the reset and the flag
PmDisableBegin ==
    /\ pm.pc = "idle" /\ pm.registered
    /\ pm' = IF pm.quiesce_gpu
             THEN [pm EXCEPT !.last = "disable", !.disabled = TRUE,
                             !.rets = {}]
             ELSE [pm EXCEPT !.pc = "synchronize_irq",
                             !.irqs_enabled = FALSE]
    /\ PmOnly

\* mutant: the call returns without waiting for the running handler
PmDisableSync_NoWait ==
    /\ pm.pc = "synchronize_irq"
    /\ pm' = [pm EXCEPT !.pc = "idle", !.last = "disable",
                        !.disabled = TRUE, !.rets = {}]
    /\ PmOnly

\* line 3759: intel_synchronize_irq waits until no handler is running
PmDisableSync ==
    /\ pm.pc = "synchronize_irq"
    /\ pm.h = "idle"
    /\ pm' = [pm EXCEPT !.pc = "idle", !.last = "disable",
                        !.disabled = TRUE, !.rets = {}]
    /\ PmOnly

\* intel_runtime_pm_enable_interrupts()
PmEnable ==
    /\ pm.pc = "idle" /\ pm.registered
    /\ pm' = [pm EXCEPT !.last = "enable", !.irqs_enabled = TRUE,
                        !.disabled = FALSE, !.rets = {}]
    /\ PmOnly

\* gen11_irq_handler / dg1_irq_handler, lines 2656-2657 and 2714-2715:
\* IRQ_NONE at once unless interrupts are enabled
HandlerEntry ==
    /\ pm.registered /\ pm.h = "idle"
    /\ pm' = IF ~intel_irqs_enabled(pm)
             THEN [pm EXCEPT !.hret = "IRQ_NONE",
                             !.rets = IF pm.disabled
                                      THEN @ \cup {"IRQ_NONE"} ELSE @]
             ELSE [pm EXCEPT !.h = "regs"]
    /\ PmOnly

\* the rest of the handler: the interrupt registers are read and written
HandlerRegs ==
    /\ pm.h = "regs"
    /\ pm' = [pm EXCEPT !.h = "return", !.late = @ \/ pm.disabled]
    /\ PmOnly

\* the handler returns IRQ_HANDLED, or IRQ_NONE if nothing was pending
HandlerReturn(r) ==
    /\ pm.h = "return"
    /\ pm' = [pm EXCEPT !.h = "idle", !.hret = r,
                        !.rets = IF pm.disabled THEN @ \cup {r} ELSE @]
    /\ PmOnly

NextPm ==
    \/ IrqInstallBegin
    \/ \E err \in {"0", "EBUSY"} : IrqInstallRequest(err)
    \/ IrqUninstall
    \/ PmDisableBegin
    \/ PmDisableSync
    \/ PmEnable
    \/ HandlerEntry
    \/ HandlerRegs
    \/ \E r \in {"IRQ_HANDLED", "IRQ_NONE"} : HandlerReturn(r)

(***************************************************************************)
(* Specifications                                                         *)
(***************************************************************************)

\* each specification runs one subsystem; the objects of the other
\* subsystems are not constructed in it, and their variables hold no value
OffCtx == ce = <<>> /\ th = <<>> /\ own = <<>> /\ hist = <<>>
OffWW == tx = <<>> /\ resv = <<>>
OffIrq == hw = <<>> /\ irq = <<>> /\ ev = <<>>
OffErr == er = <<>>
OffEng == eng = <<>>
OffReq == rq = <<>>
OffFind == fa = <<>>
OffUf == uf = <<>>
OffPol == pol = <<>>
OffFam == fam = <<>>
OffUp == up = <<>>
OffUc == uc = <<>>
OffPm == pm = <<>>

InitCtx ==
    /\ \E hasState \in BOOLEAN : InitCe(hasState)
    /\ OffWW /\ OffIrq /\ OffErr /\ OffEng /\ OffReq /\ OffFind /\ OffUf
    /\ OffPol /\ OffFam /\ OffUp /\ OffUc /\ OffPm

SpecCtx == InitCtx /\ [][NextCtx]_vars

InitWW ==
    /\ InitTx
    /\ OffCtx /\ OffIrq /\ OffErr /\ OffEng /\ OffReq /\ OffFind /\ OffUf
    /\ OffPol /\ OffFam /\ OffUp /\ OffUc /\ OffPm

SpecWW == InitWW /\ [][NextWW]_vars

InitIrqAny ==
    /\ \E plat \in Plats : InitIrq(plat)
    /\ OffCtx /\ OffWW /\ OffErr /\ OffEng /\ OffReq /\ OffFind /\ OffUf
    /\ OffPol /\ OffFam /\ OffUp /\ OffUc /\ OffPm

SpecIrq == InitIrqAny /\ [][NextIrq]_vars

InitErrAny ==
    /\ \E feat \in Feats : InitErr(feat)
    /\ OffCtx /\ OffWW /\ OffIrq /\ OffEng /\ OffReq /\ OffFind /\ OffUf
    /\ OffPol /\ OffFam /\ OffUp /\ OffUc /\ OffPm

SpecErr == InitErrAny /\ [][NextErr]_vars

InitEngAny ==
    /\ \E guc \in BOOLEAN : InitEng(guc)
    /\ OffCtx /\ OffWW /\ OffIrq /\ OffErr /\ OffReq /\ OffFind /\ OffUf
    /\ OffPol /\ OffFam /\ OffUp /\ OffUc /\ OffPm

SpecEng == InitEngAny /\ [][NextEng]_vars

InitReqAny ==
    /\ \E preempt \in BOOLEAN : InitReq(preempt)
    /\ OffCtx /\ OffWW /\ OffIrq /\ OffErr /\ OffEng /\ OffFind /\ OffUf
    /\ OffPol /\ OffFam /\ OffUp /\ OffUc /\ OffPm

SpecReq == InitReqAny /\ [][NextReq]_vars

InitFindAny ==
    /\ InitFind
    /\ OffCtx /\ OffWW /\ OffIrq /\ OffErr /\ OffEng /\ OffReq /\ OffUf
    /\ OffPol /\ OffFam /\ OffUp /\ OffUc /\ OffPm

SpecFind == InitFindAny /\ [][NextFind]_vars

InitUfAny ==
    /\ InitUf
    /\ OffCtx /\ OffWW /\ OffIrq /\ OffErr /\ OffEng /\ OffReq /\ OffFind
    /\ OffPol /\ OffFam /\ OffUp /\ OffUc /\ OffPm

SpecUf == InitUfAny /\ [][NextUf]_vars

InitPolAny ==
    /\ \E guc \in BOOLEAN, p \in PolVals, s \in PolVals : InitPol(guc, p, s)
    /\ OffCtx /\ OffWW /\ OffIrq /\ OffErr /\ OffEng /\ OffReq /\ OffFind
    /\ OffUf /\ OffFam /\ OffUp /\ OffUc /\ OffPm

SpecPol == InitPolAny /\ [][NextPol]_vars

InitFamAny ==
    /\ \E debug \in BOOLEAN, pinned \in [Ctxs -> BOOLEAN] :
          InitFam(debug, pinned)
    /\ OffCtx /\ OffWW /\ OffIrq /\ OffErr /\ OffEng /\ OffReq /\ OffFind
    /\ OffUf /\ OffPol /\ OffUp /\ OffUc /\ OffPm

SpecFam == InitFamAny /\ [][NextFam]_vars

InitUpAny ==
    /\ InitUp
    /\ OffCtx /\ OffWW /\ OffIrq /\ OffErr /\ OffEng /\ OffReq /\ OffFind
    /\ OffUf /\ OffPol /\ OffFam /\ OffUc /\ OffPm

SpecUp == InitUpAny /\ [][NextUp]_vars

InitUcAny ==
    /\ InitUc
    /\ OffCtx /\ OffWW /\ OffIrq /\ OffErr /\ OffEng /\ OffReq /\ OffFind
    /\ OffUf /\ OffPol /\ OffFam /\ OffUp /\ OffPm

SpecUc == InitUcAny /\ [][NextUc]_vars

InitPmAny ==
    /\ \E quiesce_gpu \in BOOLEAN : InitPm(quiesce_gpu)
    /\ OffCtx /\ OffWW /\ OffIrq /\ OffErr /\ OffEng /\ OffReq /\ OffFind
    /\ OffUf /\ OffPol /\ OffFam /\ OffUp /\ OffUc

SpecPm == InitPmAny /\ [][NextPm]_vars

\* the engines keep executing and the breadcrumbs keep signalling; the
\* tests are under no obligation
FairSpecReq ==
    SpecReq /\ \A i \in ReqIds : /\ WF_vars(HwStart(i))
                                /\ WF_vars(HwComplete(i))
                                /\ WF_vars(SignalFence(i))

\* every transaction's thread keeps running; signals are under no obligation
FairSpecWW == SpecWW /\ \A t \in Txns : WF_vars(TxStep(t))

(***************************************************************************)
(* Properties of the execution context manager                            *)
(***************************************************************************)

Quiescent == \A t \in Threads : th[t].pc = "idle"

UnpinReleasePcs == {"u_ops", "u_get", "u_release", "u_put"}

\* the steps of a pin call that come before the closed check
EarlySteps ==
    {"as_lock", "as_body", "lock_objs", "pre_pin", "ops_pre_pin",
     "active_acquire", "mutex_lock", "backoff"}

\* C1 as stated: after calls that sum to zero net pins (and at least one
\* first pin), the first-pin acquisition ran exactly once and the release
\* ran exactly once. Refuted by pin, unpin, pin, unpin.
C1_ExactlyOnce ==
    (Quiescent /\ ce.pin_count = 0 /\ hist.nFirstPin >= 1)
        => (hist.nFirstPin = 1 /\ hist.nRelease = 1)

\* C1 amended: whenever no call is in progress, the first-pin acquisitions
\* exceed the releases by one if the context is pinned and equal them if it
\* is not, and the activity tracker and the backend mapping are held exactly
\* once while pinned and not at all otherwise: one acquisition and one
\* release per period in which the pin count is positive.
C1_PinUnpinBalance ==
    Quiescent =>
        /\ hist.nFirstPin - hist.nRelease = (IF ce.pin_count > 0 THEN 1 ELSE 0)
        /\ ce.active = (IF ce.pin_count > 0 THEN 1 ELSE 0)
        /\ ce.mapped = (IF ce.pin_count > 0 THEN 1 ELSE 0)
        /\ ce.pin_count = own.pinsHeld

C1_Witness ==
    /\ Quiescent /\ ce.pin_count = 0
    /\ hist.nFirstPin = 2 /\ hist.nRelease = 2

\* C2: pins racing on a fresh context, before any unpin: at most one state
\* allocation and one first pin; once two pins have returned successfully the
\* pin count is 2; when unpins that started after both returns have undone
\* them, the count is 0 and exactly one release has run.
C2_PinRace ==
    /\ ~hist.unpinStarted =>
          /\ hist.nAlloc <= 1 /\ hist.nFirstPin <= 1
          /\ (Quiescent /\ hist.nPinOk = 2) =>
                (ce.pin_count = 2 /\ hist.nAlloc = 1 /\ hist.nFirstPin = 1)
    /\ (~hist.overlap /\ hist.unpinStarted /\ Quiescent
          /\ hist.nPinOk = 2 /\ own.pinsHeld = 0) =>
                (ce.pin_count = 0 /\ hist.nRelease = 1 /\ hist.nFirstPin = 1)

C2_Witness ==
    /\ ~hist.overlap /\ hist.unpinStarted /\ Quiescent
    /\ hist.nPinOk = 2 /\ own.pinsHeld = 0 /\ hist.nRelease = 1

\* C3: a thread is on the release path of unpin only if its own decrement
\* brought pin_count to zero; from the activity release to its last access
\* it holds the extra reference, the context is not freed, and no step of
\* unpin ever touches a freed context.
C3_UnpinHoldsRef ==
    /\ ~hist.uaf
    /\ \A t \in Threads :
          /\ th[t].pc \in UnpinReleasePcs => th[t].decTo = 0
          /\ th[t].pc \in {"u_release", "u_put"} =>
                (th[t].extraRef /\ ce.ref >= 1 /\ ~ce.freed)

C3_Witness ==
    \E t \in Threads :
        th[t].pc = "u_put" /\ ~own.ownerRef /\ ce.ref = 1 /\ ce.active = 0

\* C4 as stated: a pin call on a context banned at the time of the call is
\* refused and does not increment the pin count, allocated or not.
C4_BannedRefused ==
    \A t \in Threads :
        (th[t].pc = "returned" /\ th[t].bannedAtCall)
            => (th[t].ret # "OK" /\ ~th[t].incd)

\* C4 amended: a pin call on a context that is banned at the time of the call
\* and whose ALLOC bit is still clear when the call tests it under pin_mutex
\* returns -EIO without incrementing the pin count.
C4_BannedUnallocRefused ==
    \A t \in Threads :
        (th[t].bannedAtCall /\ th[t].sawUnalloc) =>
            /\ th[t].err = "EIO" /\ ~th[t].incd
            /\ th[t].pc \in {"ww_ret", "returned"}
            /\ th[t].pc = "returned" => th[t].ret = "EIO"

C4_Witness ==
    \E t \in Threads :
        /\ th[t].pc = "returned" /\ th[t].bannedAtCall /\ th[t].sawUnalloc
        /\ th[t].ret = "EIO" /\ ce.pin_count = 0

\* C5 as stated: a pin call on a closed context returns -ENOENT and does not
\* increment the pin count (calls cut short by a signal or by memory
\* exhaustion are left aside).
C5_ClosedEnoent ==
    \A t \in Threads :
        (th[t].pc = "returned" /\ th[t].closedAtCall
            /\ th[t].ret \notin {"EINTR", "ERESTARTSYS", "ENOMEM"})
            => (th[t].ret = "ENOENT" /\ ~th[t].incd)

\* C5 amended: a pin call that starts on a closed context never gets past
\* the closed check, never increments the pin count and never succeeds; it
\* returns -ENOENT exactly when it reaches the closed check, and otherwise the
\* error of the earlier step that failed.
C5_ClosedNeverPinned ==
    \A t \in Threads :
        th[t].closedAtCall =>
            /\ ~th[t].incd
            /\ th[t].pc \notin {"add_unless", "first_acquire", "ops_pin",
                                "atomic_inc", "u_dec"}
            /\ th[t].pc = "returned" =>
                  /\ th[t].ret # "OK"
                  /\ (th[t].failpc = "closed_chk") <=> (th[t].ret = "ENOENT")
                  /\ th[t].failpc \in EarlySteps \cup {"closed_chk"}

C5_Witness ==
    \E t \in Threads :
        /\ th[t].pc = "returned" /\ th[t].closedAtCall /\ th[t].ret = "ENOENT"
        /\ ce.pin_count = 0 /\ hist.nRelease >= 1

\* C7: pin and create_request never return -EDEADLK.
C7_NoEdeadlkReturned ==
    \A t \in Threads : th[t].pc = "returned" => th[t].ret # "EDEADLK"

C7_Witness ==
    \E t \in Threads :
        /\ th[t].pc = "returned" /\ th[t].failpc = "retried"
        /\ th[t].kind = "create_request" /\ th[t].ret = "OK"

(***************************************************************************)
(* Properties of the ww transactions                                       *)
(***************************************************************************)

\* C6: transactions locking the same objects in different orders never
\* deadlock. Under fair scheduling every transaction that starts locking
\* comes to hold its whole set, unless a signal interrupts its sleep; a
\* transaction fails for no other reason, and no transaction ever gets
\* -EINVAL from the backoff.
C6_WwNoDeadlock ==
    /\ [](\A t \in Txns : tx[t].pc \in {"fini", "failed"} => tx[t].ret = "EINTR")
    /\ \A t \in Txns :
          (tx[t].pc = "lock") ~> (tx[t].pc = "locked" \/ tx[t].ret = "EINTR")

\* all three transactions have held their whole set, the two younger ones
\* after a backoff
C6_Witness ==
    /\ \A t \in Txns : tx[t].pc = "done"
    /\ tx[2].retried /\ tx[3].retried

(***************************************************************************)
(* Properties of the interrupt dispatch                                    *)
(***************************************************************************)

\* the acknowledged bits the handler still has to hand to a handler
InFlight ==
    (IF irq.pc = "ack" THEN irq.pica_iir ELSE {})
        \cup (IF irq.pc \in {"mstr_enable", "gu_handle"}
              THEN irq.gu_misc_iir ELSE {})

\* the handler calls of the current cycle that were given bit b
NCalls(b) == Cardinality({i \in DOMAIN ev.calls : b \in ev.calls[i].bits})

\* C8: no event is lost while the device is accessible. An event that was
\* raised and not yet acknowledged is latched in its identity register; an
\* acknowledged event is consumed in the same step or is held by the handler
\* for the call it is about to make; and when the handler is not running, an
\* event still pending finds the master enabled and its indication asserted,
\* so that it interrupts again.
C8_NoEventLost ==
    ~hw.dpc =>
        /\ ev.pend \subseteq AllIir(hw)
        /\ ev.taken \subseteq InFlight
        /\ (irq.pc \in {"idle", "ret"} /\ ev.pend # {}) => IrqAsserted(hw)

\* a cycle has dispatched something, an event arrived between the read and
\* the write-clear of its identity register, and an event is pending at return
C8_Witness ==
    /\ irq.pc = "ret" /\ irq.ret = "IRQ_HANDLED" /\ ~hw.dpc
    /\ ev.late /\ ev.pend # {} /\ IrqAsserted(hw)
    /\ \E i \in DOMAIN ev.calls : ev.calls[i].bits # {}

\* C9 as stated: a handler invocation that disabled the master has enabled it
\* again when it returns.
C9_AlwaysReenabled ==
    (irq.pc = "ret" /\ irq.did_disable) => irq.did_enable

\* C9 amended: a handler invocation that disabled the master has enabled it
\* again when it returns, and the master is then enabled, except when
\* dg1_irq_handler returns early because the tile's master register read as
\* all ones (DPC containment).
C9_ReenabledUnlessDpc ==
    (irq.pc = "ret" /\ irq.did_disable) =>
        /\ irq.did_enable \/ (hw.plat # "gen11" /\ hw.dpc
                              /\ <<"DPC containment", "">> \in ev.logs)
        /\ (irq.did_enable /\ ~hw.dpc) => hw.mstr

C9_Witness ==
    /\ irq.pc = "ret" /\ irq.did_disable /\ irq.did_enable
    /\ irq.ret = "IRQ_HANDLED" /\ hw.plat = "dg1" /\ hw.mstr
    /\ \E i \in DOMAIN ev.calls : ev.calls[i].bits # {}

\* C10 as stated: a cycle that starts with exactly one identity bit set (its
\* top-level indication asserted, nothing else arriving) ends with the bit
\* and the indication cleared and exactly one handler call for the bit.
C10_OneHandlerCall ==
    (irq.pc = "ret" /\ ev.single # "none") =>
        /\ AllIir(hw) = {} /\ MasterLevels(hw) = {}
        /\ NCalls(ev.single) = 1

\* C10 amended: such a cycle ends with the bit and the indication cleared and
\* exactly one handler call for the bit, except that a pipe fault bit is
\* cleared and logged without any handler call.
C10_OneCallUnlessFault ==
    (irq.pc = "ret" /\ ev.single # "none") =>
        /\ AllIir(hw) = {} /\ MasterLevels(hw) = {}
        /\ irq.ret = "IRQ_HANDLED"
        /\ IF ev.single = "PIPE_FAULT"
           THEN NCalls(ev.single) = 0
                /\ <<"Fault errors on pipe", "DE_PIPE">> \in ev.logs
           ELSE NCalls(ev.single) = 1

C10_Witness ==
    /\ irq.pc = "ret" /\ ev.single = "PIPE_VBLANK"
    /\ NCalls("PIPE_VBLANK") = 1 /\ AllIir(hw) = {}

\* the cycle read identity register r as zero although its summary bit was
\* set, logged the anomaly, called no handler of r and wrote nothing to r
LiedHandled(r) ==
    /\ <<"The master control interrupt lied", r>> \in ev.logs
    /\ \A i \in DOMAIN ev.calls : ev.calls[i].fn \notin HandlersOf(r)
    /\ <<"wr", r>> \notin ev.acc

\* gen8_de_irq_handler has gone through every source of its master_ctl
\* argument: each was read, and written back unless it read as zero
AllSourcesVisited ==
    irq.pc = "disp_on" =>
        \A r \in irq.disp_ctl :
            \/ <<"zero", r>> \in ev.acc
            \/ <<"rd", r>> \in ev.acc /\ <<"wr", r>> \in ev.acc

\* C11 as stated: whenever a summary bit is asserted and the identity
\* register behind it reads zero, at any level of the dispatch, the cycle
\* logs "The master control interrupt lied", calls no handler of that source,
\* writes nothing to the register and goes on with the remaining sources.
C11_LiedAlwaysLogged ==
    /\ irq.pc = "ret" =>
          \A r \in IirRegs : <<"zero", r>> \in ev.acc => LiedHandled(r)
    /\ AllSourcesVisited

\* C11 amended: the same for the display sources of gen8_de_irq_handler
\* (DE MISC, DE HPD, DE PORT, DE PIPE, SDE). A zero GU_MISC identity
\* register behind an asserted top-level bit is not logged, and
\* gen11_gu_misc_irq_handler is still called, with the value zero.
C11_DisplayLiedLogged ==
    /\ irq.pc = "ret" =>
          /\ \A r \in Range(DeSrcs) :
                <<"zero", r>> \in ev.acc => LiedHandled(r)
          /\ <<"zero", "GU_MISC">> \in ev.acc =>
                /\ \A r \in IirRegs :
                      <<"The master control interrupt lied", r>> \in ev.logs
                          => <<"zero", r>> \in ev.acc /\ r # "GU_MISC"
                /\ <<"wr", "GU_MISC">> \notin ev.acc
                /\ ev.calls[Len(ev.calls)] =
                       Call("gen11_gu_misc_irq_handler", {})
          /\ ev.acc # {} => irq.ret = "IRQ_HANDLED"
    /\ AllSourcesVisited

\* DE PORT read as zero and was logged; DE PIPE, a later source of the same
\* cycle, was acknowledged and handled
C11_Witness ==
    /\ irq.pc = "ret" /\ ~hw.dpc
    /\ <<"zero", "DE_PORT">> \in ev.acc /\ LiedHandled("DE_PORT")
    /\ <<"wr", "DE_PIPE">> \in ev.acc
    /\ \E i \in DOMAIN ev.calls : ev.calls[i].fn = "intel_handle_vblank"

\* C12: while the device is accessible, from the read of a nested identity
\* register to its write-clear the enable above it is off: the display
\* interrupt control and the master for the display sources, PICA IER for
\* PICA IIR, the master for GU_MISC; and a cycle that touched an identity
\* register returns with the master, the display control and PICA IER back
\* at the values they had at entry.
C12_OuterDisabledAroundInner ==
    ~hw.dpc =>
        /\ \A r \in Range(DeSrcs) :
                InAckWindow(r) => ~hw.disp /\ ~hw.mstr
        /\ InAckWindow("PICA") => ~hw.pica_ier /\ ~hw.disp /\ ~hw.mstr
        /\ InAckWindow("GU_MISC") => ~hw.mstr
        /\ (irq.pc = "ret" /\ ev.acc # {}) =>
                /\ hw.mstr /\ hw.disp
                /\ hw.pica_ier = HwInit(hw.plat).pica_ier

\* PICA IIR has been read and not yet written back: PICA IER was on and is
\* off, to be restored
C12_Witness ==
    /\ irq.pc = "pica_ack" /\ ~hw.dpc /\ hw.plat = "mtl"
    /\ irq.pica_ier /\ ~hw.pica_ier /\ irq.pica_iir # {}
    /\ ~hw.disp /\ ~hw.mstr

\* the steps of the handler being serviced that read a status register as
\* non-zero
ErrReads ==
    {i \in DOMAIN er.ops :
        er.ops[i].op = "rd" /\ er.ops[i].a \in StatusRegs /\ er.ops[i].v # {}}

\* the steps after step i that write the register step i has read
AcksOf(i) ==
    {j \in DOMAIN er.ops :
        j > i /\ er.ops[j].op = "wr" /\ er.ops[j].a = er.ops[i].a}

\* C13 as stated: in the hardware error handlers every status register read
\* as non-zero is written back with the value read in the very next step,
\* before any counting, logging or sub-handler call for it.
C13_AckRightAfterRead ==
    \A i \in ErrReads :
        i < Len(er.ops) /\ er.ops[i + 1] = Acc("wr", er.ops[i].a, er.ops[i].v)

\* C13 as the handlers do it: every status register read as non-zero is
\* written back exactly once, later in the same invocation (after the
\* per-bit processing, not before it), with the value read; only the local
\* master SOC register is written back without an MDFI bit whose header is
\* not this device's. A status register is written with nothing but bits
\* read from it before, except by the correctable SOC path, which writes
\* all-ones without reading.
C13_AckBeforeReturn ==
    /\ \A i \in ErrReads :
          /\ Cardinality(AcksOf(i)) = 1
          /\ \A j \in AcksOf(i) :
                \/ er.ops[j].v = er.ops[i].v
                \/ /\ er.ops[i].a = "SOC_LCL_MST"
                   /\ er.ops[j].v = er.ops[i].v \ {"MDFI"}
    /\ \A j \in DOMAIN er.ops :
          (er.ops[j].op = "wr" /\ er.ops[j].a \in StatusRegs) =>
              \/ \E i \in 1..(j - 1) :
                    /\ er.ops[i].op = "rd" /\ er.ops[i].a = er.ops[j].a
                    /\ er.ops[j].v \subseteq er.ops[i].v
              \/ er.ops[j].v = {"all"} /\ er.sev = "CORRECTABLE"

\* the GSC status is read with an error bit set, the error is counted, and
\* only then the status is written back
C13_Witness ==
    \E i, j, k \in DOMAIN er.ops :
        /\ i < j /\ j < k
        /\ er.ops[i] = Acc("rd", "GSC", {"KNOWN"})
        /\ er.ops[j] = Num("cnt", "GSC_KNOWN", 1)
        /\ er.ops[k] = Acc("wr", "GSC", {"KNOWN"})

\* C14 as stated: every counter of gt->errors equals the number of times the
\* handlers have read its status bit as set.
C14_CountEqualsObserved ==
    \A c \in Counters : Val(er.cnt, c) = Val(er.obs, c)

\* C14 as the handlers count: a counter equals the number of times its
\* status bit was read as set, less the observations the handler gave up (a
\* SOC count whose xarray store failed, an MDFI bit under a header of
\* another severity); the SLM counters of a platform other than Ponte
\* Vecchio are not counts at all but the last value read from
\* SLM_ECC_ERROR_CNTR.
C14_CountEqualsObservedLessLost ==
    /\ \A c \in Counters :
          (c[2] # "GT_SLM" \/ er.feat.pvc) =>
              Val(er.cnt, c) = Val(er.obs, c) - Val(er.miss, c)
    /\ \A i \in DOMAIN er.ops :
          (er.ops[i].op = "rd" /\ er.ops[i].a = "SLM_ECC_ERROR_CNTR") =>
              Val(er.cnt, <<er.sev, "GT_SLM">>) = er.ops[i].n

\* two interrupts have reported subslice errors, five bits in all, and the
\* counter stands at five
C14_Witness ==
    /\ er.nirq = 2
    /\ Val(er.obs, <<"FATAL", "SUBSLICE">>) = 5
    /\ Val(er.cnt, <<"FATAL", "SUBSLICE">>) = 5

\* C15 as stated: no counter of gt->errors ever decreases.
C15_NeverDecreases ==
    [][\A c \in Counters : Val(er'.cnt, c) >= Val(er.cnt, c)]_vars

\* C15 as the handlers count: no counter ever decreases, except the SLM
\* counters of a platform other than Ponte Vecchio, which take whatever
\* value SLM_ECC_ERROR_CNTR returns.
C15_NeverDecreasesButSlm ==
    [][\A c \in Counters :
          (c[2] # "GT_SLM" \/ er.feat.pvc) => Val(er'.cnt, c) >= Val(er.cnt, c)]_vars

\* a counter has been incremented by each of two interrupts
C15_Witness ==
    /\ er.nirq = 2 /\ er.sev = "CORRECTABLE"
    /\ Val(er.cnt, <<"CORRECTABLE", "GT_KNOWN">>) = 2
    /\ \E i \in DOMAIN er.ops : er.ops[i] = Num("cnt", "GT_KNOWN", 1)

\* the handler being serviced has found the memory pattern "sparing
\* exhausted, uncorrectable": GSC_COR_FW_REPORTED_ERR in the correctable GSC
\* status, and BANK_SPARNG_ENA_PCLS_UNCORRECTABLE in GSC_HEC_CORR_FW_ERR_DW0
SparingExhausted ==
    /\ er.sev = "CORRECTABLE"
    /\ \E i \in DOMAIN er.ops :
          /\ er.ops[i].op = "rd" /\ er.ops[i].a = "GSC"
          /\ "FW" \in er.ops[i].v
    /\ \E i \in DOMAIN er.ops :
          /\ er.ops[i].op = "cause"
          /\ er.ops[i].b = "BANK_SPARNG_ENA_PCLS_UNCORRECTABLE"

\* kobject_uevent_env of gen12_mem_health_work for the degraded, error
\* correction failed state
Unrecoverable(u) == u = "DEGRADED=1 EC_FAILED=1"

\* C16: when the one interrupt of a run reports the sparing exhausted,
\* uncorrectable pattern, the handler schedules the memory health work and
\* sends nothing itself; once that work has run there is exactly one uevent,
\* the unrecoverable one, and one machine check taint; there is never more
\* than one.
C16_OneUnrecoverableNotification ==
    (er.nirq = 1 /\ SparingExhausted) =>
        IF "mem_health_work" \in er.works
        THEN er.uevents = <<>> /\ er.taints = 0
        ELSE /\ Len(er.uevents) = 1 /\ Unrecoverable(er.uevents[1])
             /\ er.taints = 1

\* the pattern was found on Ponte Vecchio, the critical log line written, and
\* the work has run: one unrecoverable uevent
C16_Witness ==
    /\ er.nirq = 1 /\ SparingExhausted /\ er.feat.pvc
    /\ er.works = {}
    /\ er.uevents = <<"DEGRADED=1 EC_FAILED=1">> /\ er.taints = 1
    /\ \E i \in DOMAIN er.ops :
          er.ops[i] = Log("crit", "HBM", "BANK_SPARNG_ENA_PCLS_UNCORRECTABLE")

\* C17 as stated, in its weakest reading: when the one interrupt of a run
\* reports the sparing exhausted, uncorrectable pattern, some counter of
\* gt->errors has been incremented to one.
C17_PatternCounted ==
    (er.nirq = 1 /\ SparingExhausted) =>
        \E c \in Counters : Val(er.cnt, c) = 1

\* C18 as stated: as long as only correctable interrupts have been serviced,
\* no uevent has been sent, the kernel is not tainted and no work that would
\* do either is pending with a cause to report.
C18_CorrectableNeverEscalates ==
    er.sevs \subseteq {"CORRECTABLE"} =>
        /\ er.uevents = <<>> /\ er.taints = 0
        /\ "gsc_hw_error_work" \notin er.works

\* C18 as the handlers do it: as long as only correctable interrupts have
\* been serviced, the handler itself sends nothing and never schedules the
\* GSC error work, but a uevent is sent and the kernel tainted by the memory
\* health work, on a platform with memory sparing, when the firmware
\* reported error bit of the correctable GSC status came with a cause other
\* than BANK_CORRECTABLE_ERROR; a cause is recorded only by a handler that
\* has read that bit as set.
C18_CorrectableEscalatesOnlyForFw ==
    [][er'.sevs \subseteq {"CORRECTABLE"} =>
          /\ "gsc_hw_error_work" \notin er'.works
          /\ (er'.uevents # er.uevents \/ er'.taints # er.taints) =>
                /\ "mem_health_work" \in er.works /\ er.feat.spar
                /\ er.cause \notin {"0", "BANK_CORRECTABLE_ERROR"}
          /\ (er'.cause # er.cause /\ er'.cause # "0") =>
                \E i \in DOMAIN er'.ops :
                    /\ er'.ops[i].op = "rd" /\ er'.ops[i].a = "GSC"
                    /\ "FW" \in er'.ops[i].v]_vars

\* only correctable interrupts have been serviced, and user space has been
\* told that a reset is required
C18_Witness ==
    /\ er.sevs = {"CORRECTABLE"}
    /\ er.uevents = <<"RESET_REQUIRED=1 EC_PENDING=1">>
    /\ er.works = {}

\* the bits of a status register that only say which register or handler to
\* go to next
RouteBits == {"GT", "GSC", "SOC", "SLAVE_IEH", "IEH0_LOCAL", "IEH1_LOCAL"}

\* the handler being serviced has logged bit b of register reg, or the
\* register as a whole, as an error of a known type or as "Undefined"
Classified(reg, b, kinds) ==
    \E j \in DOMAIN er.ops :
        /\ er.ops[j].op = "log" /\ er.ops[j].a \in kinds
        /\ er.ops[j].b = reg /\ er.ops[j].v \subseteq {b, ""}

\* bit b read by step i is one the handlers pass over: a bit of the device
\* error source register on a platform other than Ponte Vecchio (log_errors
\* returns at once), a bit of the fatal GSC status (one line for the whole
\* register), a bit of the correctable GSC status after a firmware reported
\* error without a cause (goto re_enable_interrupt), an MDFI bit under a
\* header of another severity, a bit of the local slave SOC register
\* (logged as "Invalid")
PassedOver(i, b) ==
    LET o == er.ops[i]
    IN  \/ o.a = "DEV" /\ ~er.feat.pvc
        \/ o.a = "GSC" /\ er.sev = "FATAL"
        \/ /\ o.a = "GSC" /\ er.sev = "CORRECTABLE"
           /\ "FW" \in o.v /\ b = "UNDEF"
           /\ \A j \in DOMAIN er.ops : er.ops[j].op # "sched"
        \/ /\ o.a = "SOC_LCL_MST" /\ b = "MDFI"
           /\ \E j \in AcksOf(i) : "MDFI" \notin er.ops[j].v
        \/ o.a = "SOC_LCL_SLV"

\* C19 as stated: every error bit the handler being serviced has read as
\* set is logged with its type or as "Undefined", and a bit without a known
\* type is logged as "Undefined".
C19_EveryBitClassified ==
    \A i \in ErrReads : \A b \in er.ops[i].v \ RouteBits :
        /\ Classified(er.ops[i].a, b, {"typed", "Undefined"})
        /\ b = "UNDEF" => Classified(er.ops[i].a, b, {"Undefined"})

\* what the handlers do classify: every error bit read as set except the
\* bits passed over
ClassifiedUnlessPassedOver ==
    \A i \in ErrReads : \A b \in er.ops[i].v \ RouteBits :
        \/ PassedOver(i, b)
        \/ /\ Classified(er.ops[i].a, b, {"typed", "Undefined"})
           /\ b = "UNDEF" => Classified(er.ops[i].a, b, {"Undefined"})

\* the correctable GSC status is read with the firmware reported error bit
\* and a bit without a type, no cause is found, and the handler writes the
\* status back having logged nothing about the second bit
C19_Witness ==
    /\ er.sev = "CORRECTABLE"
    /\ \E i \in ErrReads :
          /\ er.ops[i].a = "GSC" /\ {"FW", "UNDEF"} \subseteq er.ops[i].v
          /\ \E j \in AcksOf(i) : "UNDEF" \in er.ops[j].v
    /\ ~Classified("GSC", "UNDEF", {"typed", "Undefined"})

\* C20 as stated: a call of intel_engine_is_idle made while a submitted
\* request's fence had not signalled has returned false.
C20_BusyNeverIdle ==
    (eng.ret # "none" /\ eng.at.unsig > 0) => eng.ret = "false"

\* C20 as intel_engine_is_idle decides: a call made while a submitted
\* request's fence had not signalled has returned true exactly when the gt
\* was wedged, or when, without GuC submission, nothing was left in the
\* queue or in the ring and the command streamer was idle: the hardware had
\* completed the request and the fence was yet to signal.
C20_BusyIdleOnlyWhenWedgedOrDrained ==
    (eng.ret # "none" /\ eng.at.unsig > 0) =>
        (eng.ret = "true" <=>
            \/ eng.at.wedged
            \/ ~eng.guc /\ eng.at.left = 0 /\ eng.at.mi_idle)

\* the one request is in the ring, its fence has not signalled, and the call
\* has returned false
C20_Witness ==
    /\ eng.nreq = 1 /\ eng.unsig = 1 /\ eng.ring = 1 /\ ~eng.wedged
    /\ eng.at.unsig = 1 /\ eng.ret = "false"

\* C21 as stated: under GuC submission, the gt not wedged and the engine
\* awake, intel_engine_is_idle reads no engine register and returns true
\* exactly when the queue of the scheduler is empty.
C21_GucIdleIffQueueEmpty ==
    (eng.guc /\ eng.ret # "none" /\ ~eng.at.wedged /\ eng.at.awake) =>
        /\ ~eng.at.mmio
        /\ eng.ret = "true" <=> eng.at.queue = 0

\* C21 as intel_engine_is_idle decides: under GuC submission a call reads
\* no engine register, and returns true exactly when the gt was wedged or
\* the engine was not awake; on an awake engine it returns false whether
\* the queue is empty or not.
C21_GucIdleIffNotAwake ==
    (eng.guc /\ eng.ret # "none") =>
        /\ ~eng.at.mmio
        /\ eng.ret = "true" <=> (eng.at.wedged \/ ~eng.at.awake)

\* under GuC submission the engine is awake, the queue has drained, and
\* the call has returned false
C21_Witness ==
    /\ eng.guc /\ eng.nreq > 0 /\ ~eng.at.wedged /\ eng.at.awake
    /\ eng.at.queue = 0 /\ ~eng.at.mmio /\ eng.ret = "false"

\* C22: on engines with preemption, a request that i915_request_cancel found
\* executing and marked with error e comes to signal its fence, its fence
\* error being e, also when its payload spins for ever.
C22_CancelActiveSignals ==
    \A i \in ReqIds, e \in ReqErrs :
        (/\ rq.preempt /\ i \in DOMAIN rq.r
         /\ rq.r[i].cat = "executing" /\ rq.r[i].err = e)
            ~> (i \in DOMAIN rq.r /\ rq.r[i].sig /\ rq.r[i].err = e)

\* a spinner cancelled with -EINTR while executing has signalled with that
\* error
C22_Witness ==
    /\ rq.preempt
    /\ \E i \in DOMAIN rq.r :
          /\ rq.r[i].spin /\ rq.r[i].cat = "executing"
          /\ rq.r[i].sig /\ rq.r[i].err = "EINTR"

\* request i was unsubmitted when cancel marked it with error e, and has
\* been added since
CancelledInactive(i, e) ==
    /\ i \in DOMAIN rq.r /\ rq.r[i].cat = "unsubmitted"
    /\ rq.r[i].err = e /\ rq.r[i].seqno > 0

\* request i has signalled with error e, its payload skipped
SkippedWith(i, e) ==
    /\ i \in DOMAIN rq.r /\ rq.r[i].sig /\ rq.r[i].err = e
    /\ rq.r[i].skip

\* request i is held up: a request ahead of it in its timeline, or one
\* whose fence it awaits, has not completed and spins without being skipped
HeldUp(i) ==
    /\ i \in DOMAIN rq.r
    /\ \E j \in Ahead(i) \cup rq.r[i].awaits :
          rq.r[j].st # "complete" /\ rq.r[j].spin /\ ~rq.r[j].skip

C24_CancelCompletedNoEffect ==
    \A i \in DOMAIN rq.r : rq.r[i].late => rq.r[i].err = "0"

\* a request has completed and signalled, cancel has been called on it
\* afterwards, and its fence error is 0
C24_Witness ==
    \E i \in DOMAIN rq.r :
        /\ rq.r[i].late /\ rq.r[i].sig /\ rq.r[i].st = "complete"
        /\ rq.r[i].err = "0" /\ rq.ncancel > 0

\* C25: a request whose fence has signalled is in one terminal state: it
\* completed with success, its fence error 0 and no cancel having marked
\* it, or it is cancelled, its fence error the one given by the cancel that
\* found it before completion; and from then on the fence stays signalled
\* and the request's state and fence error stay as they are.
C25_OneStickyTerminalState ==
    [][\A i \in DOMAIN rq.r :
          /\ rq.r[i].sig =>
                /\ rq'.r[i].sig /\ rq'.r[i].st = rq.r[i].st
                /\ rq'.r[i].err = rq.r[i].err
          /\ rq'.r[i].sig =>
                /\ rq'.r[i].st = "complete"
                /\ \/ rq'.r[i].err = "0" /\ rq'.r[i].cat = "none"
                   \/ /\ rq'.r[i].err \in ReqErrs
                      /\ rq'.r[i].cat \in
                            {"unsubmitted", "submitted", "executing"}]_vars

\* cancel has raced with the completion of an executing request whose
\* payload ends by itself, and has come first: the request has signalled
\* as cancelled
C25_Witness ==
    \E i \in DOMAIN rq.r :
        /\ ~rq.r[i].spin /\ rq.r[i].cat = "executing"
        /\ rq.r[i].sig /\ rq.r[i].err = "EIO"

\* C26: the fence error of a request is set at most once: once it is not 0
\* no step changes it, so that a second cancel, with the same error or
\* another, leaves the error the first one set.
C26_FenceErrorSetOnce ==
    [][\A i \in DOMAIN rq.r :
          rq.r[i].err # "0" => rq'.r[i].err = rq.r[i].err]_vars

\* a request cancelled twice before it completed, the second time with
\* another error, has signalled with the error of the first call
C26_Witness ==
    \E i \in DOMAIN rq.r :
        /\ rq.r[i].again # "0" /\ rq.r[i].again # rq.r[i].err
        /\ rq.r[i].err # "0" /\ rq.r[i].sig

\* C27: of two requests added to the timeline of one context, the one added
\* later is never complete while the one added earlier is not, whether or
\* not either is cancelled.
C27_TimelineOrder ==
    \A b \in DOMAIN rq.r : \A a \in Ahead(b) :
        rq.r[b].st = "complete" => rq.r[a].st = "complete"

\* two requests of one context have completed, the later one cancelled
\* while the earlier one was still spinning on the engine
C27_Witness ==
    \E b \in DOMAIN rq.r : \E a \in Ahead(b) :
        /\ rq.r[a].st = "complete" /\ rq.r[b].st = "complete"
        /\ rq.r[a].spin /\ rq.r[a].cat = "executing"
        /\ rq.r[b].cat = "submitted"

\* C28: a request made to await the fence of another before being added is
\* never complete while the other is not, whatever contexts and engines
\* the two are on.
C28_AwaitOrder ==
    \A b \in DOMAIN rq.r : \A a \in rq.r[b].awaits :
        rq.r[b].st = "complete" => rq.r[a].st = "complete"

\* a request on one context awaited the fence of a spinner on another, and
\* both have completed
C28_Witness ==
    \E b \in DOMAIN rq.r : \E a \in rq.r[b].awaits :
        /\ rq.r[a].ctx # rq.r[b].ctx /\ rq.r[a].spin
        /\ rq.r[a].st = "complete" /\ rq.r[b].st = "complete"
        /\ rq.r[b].err = "0"

\* C29 as stated: __intel_context_find_active_request has read no request
\* after it was freed, and has taken no reference on a request whose
\* reference count had dropped to zero.
C29_FindNeverTouchesFreed ==
    ~fa.stale /\ ~fa.zero

\* the reference half of C29 alone: no reference has been taken on a
\* request whose reference count had dropped to zero
C29_FindNeverRevives ==
    ~fa.zero

\* the walk chose a request that was then completed, retired and freed
\* before i915_request_get(active), and the call has returned it
C29_Witness ==
    /\ fa.nfind > 0 /\ fa.get_ref /\ fa.zero /\ fa.ret # 0
    /\ fa.reqs[fa.ret].freed /\ ~fa.reqs[fa.ret].linked

\* C30 as stated: a wait on a user fence that ends because its timeout
\* ran out with the comparison false has returned -ETIME, and -ETIME has
\* been returned for no other ending.
C30_TimeoutIffETIME ==
    uf.pc = "done" =>
        (uf.why = "timeout" <=> uf.ret = "ETIME")

\* C30 as the ioctl returns: -ETIME has been returned only for a wait that
\* ended because its timeout ran out with the comparison false; such a
\* wait has returned -ETIME, or -EAGAIN if its timeout was relative and a
\* jiffy or more of it is left by the clock; and -EAGAIN has been returned
\* for no other ending.
C30_TimeoutETIMEOrEAGAIN ==
    uf.pc = "done" =>
        /\ uf.ret = "ETIME" => uf.why = "timeout"
        /\ uf.why = "timeout" =>
              uf.ret = IF ~uf.arg.abstime /\ uf.arg.timeout > 0
                          /\ nsecs_to_jiffies(uf.left) > 0
                       THEN "EAGAIN" ELSE "ETIME"
        /\ uf.ret = "EAGAIN" => uf.why = "timeout"

\* a wait with a relative timeout of more than a jiffy has slept until
\* the timer expired and has returned -ETIME, nothing left of its timeout
C30_Witness ==
    /\ uf.pc = "done" /\ uf.ret = "ETIME" /\ uf.why = "timeout"
    /\ ~uf.arg.abstime /\ uf.arg.timeout = NsPerJiffy + 1
    /\ uf.left = 0 /\ ~uf.cond


\* C31: the pin count of a context is never negative, whatever the
\* interleaving of pin calls and of unpin(n) calls that release pins the
\* callers hold.
C31_PinCountNeverNegative ==
    ce.pin_count >= 0

\* two pins were taken and one unpin(2) has released both: the count that
\* unpin left is zero, and no other call is under way
C31_Witness ==
    \E t \in Threads :
        /\ th[t].kind = "unpin" /\ th[t].sub = 2 /\ th[t].decTo = 0
        /\ hist.nPinOk = 2 /\ own.pinsHeld = 0 /\ ce.pin_count = 0
        /\ \A u \in Threads \ {t} : th[u].pc = "idle"


\* where a thread inside __intel_context_do_pin_ww holds the pins of
\* intel_context_pre_pin, the mapping of ce->ops->pre_pin, and its
\* reference on ce->active
PrePinPcs ==
    {"ops_pre_pin", "active_acquire", "mutex_lock", "closed_chk",
     "add_unless", "first_acquire", "ops_pin", "atomic_inc", "err_unlock",
     "err_release"}
OpsPrePinPcs == PrePinPcs \ {"ops_pre_pin"}
ActiveRefPcs == OpsPrePinPcs \ {"active_acquire"}

NThreadsAt(pcs) == Cardinality({t \in Threads : th[t].pc \in pcs})

\* the pins that the unpins of the threads in S are about to subtract
RECURSIVE PendingSub(_)
PendingSub(S) ==
    IF S = {} THEN 0
    ELSE LET t == CHOOSE u \in S : TRUE
         IN  (IF th[t].pc = "u_dec" THEN th[t].sub ELSE 0)
             + PendingSub(S \ {t})

\* 1 for the reference that lasts as long as cond does
Held(cond) == IF cond THEN 1 ELSE 0

\* C34: a pin attempt that has failed has not raised the pin count, and
\* every pin or activity reference it took on the ring, the timeline, the
\* state image and ce->active has been released again; a pin that has
\* succeeded on a context already pinned has left those counts as they
\* were. In every state each count is exactly what the attempts still
\* under way, the pinned state and the unpins under way hold: a call that
\* has come to its return holds nothing.
C34_FailedPinLeavesNothing ==
    /\ \A t \in Threads :
          InPinCall(t) /\ th[t].err # "OK" => ~th[t].incd
    /\ ce.ring = NThreadsAt(PrePinPcs) + Held(ce.active > 0)
    /\ ce.timeline = NThreadsAt(PrePinPcs) + Held(ce.active > 0)
    /\ ce.statepin =
          IF ce.state THEN NThreadsAt(PrePinPcs) + Held(ce.active > 0) ELSE 0
    /\ ce.mapped =
          Cardinality({t \in Threads : th[t].pc \in OpsPrePinPcs
                                       /\ ~(th[t].handoff /\ th[t].incd)})
          + Held(ce.pin_count > 0) + NThreadsAt({"u_ops"})
    /\ ce.active =
          NThreadsAt(ActiveRefPcs) + NThreadsAt({"ops_pin", "atomic_inc"})
          + Held(ce.pin_count > 0)
          + NThreadsAt({"u_ops", "u_get", "u_release"})
    /\ ce.pin_count =
          own.pinsHeld
          + Cardinality({t \in Threads :
                /\ InPinCall(t) /\ th[t].incd
                /\ th[t].pc \in {"err_unlock", "err_release", "ww_ret"}})
          + PendingSub(Threads)

\* a first pin has come as far as ce->ops->pin, that has failed, and the
\* attempt is back at its caller: nothing is pinned or active
C34_Witness ==
    \E t \in Threads :
        /\ th[t].kind = "pin" /\ th[t].pc = "ww_ret"
        /\ th[t].err = "ENOMEM" /\ th[t].failpc = "ops_pin"
        /\ \A u \in Threads \ {t} : th[u].pc = "idle"
        /\ ce.pin_count = 0 /\ ce.active = 0 /\ ce.ring = 0
        /\ ce.timeline = 0 /\ ce.statepin = 0 /\ ce.mapped = 0
        /\ ce.state /\ hist.nPinOk = 0


\* the notification gen12_mem_health_work is to send for a cause the
\* firmware reported: none for a plain correctable error
HealthEvent(c) ==
    CASE c = "BANK_SPARNG_ERR_MITIGATION_DOWNGRADED" -> <<"MEM_HEALTH_ALARM=1">>
      [] c = "BANK_SPARNG_DIS_PCLS_EXCEEDED" ->
            <<"RESET_REQUIRED=1 EC_PENDING=1">>
      [] c = "BANK_SPARNG_ENA_PCLS_UNCORRECTABLE" -> <<"DEGRADED=1 EC_FAILED=1">>
      [] c \in {"0", "BANK_CORRECTABLE_ERROR"} -> <<>>
      [] OTHER -> <<"SPARING_STATUS_UNKNOWN=1">>

\* the causes the handler now running has read from GSC_HEC_CORR_FW_ERR_DW0
ReportedNow(e) ==
    {e.ops[i].b : i \in {j \in DOMAIN e.ops :
                            e.ops[j].op = "cause" /\ e.ops[j].b # "0"}}

\* C35 as stated: every memory-sparing cause reported by firmware results
\* in the notification defined for that cause, also when a second cause is
\* reported before the health work has consumed the first. Step by step:
\* a cause the handler has just read is the cause left for the work, a
\* cause left for the work stays as it is until the work takes it, and the
\* work sends the notification defined for the cause it takes.
C35_NoCauseLost ==
    [][ /\ er'.ops # er.ops =>
              \A c \in ReportedNow(er') : er'.cause = c
        /\ (er.cause # "0" /\ er'.cause # er.cause) =>
              /\ "mem_health_work" \in er.works
              /\ "mem_health_work" \notin er'.works
              /\ er'.cause = "0"
        /\ ("mem_health_work" \in er.works
                /\ "mem_health_work" \notin er'.works) =>
              er'.uevents = er.uevents \o HealthEvent(er.cause)
      ]_vars

\* a second interrupt has reported the PCLS-exceeded cause while the
\* health work scheduled for an earlier, different cause had not run: what
\* is left for the work is neither of the two
C35_Witness ==
    /\ er.nirq = 2 /\ er.sev = "CORRECTABLE"
    /\ "BANK_SPARNG_DIS_PCLS_EXCEEDED" \in ReportedNow(er)
    /\ er.cause \notin {"0", "BANK_SPARNG_DIS_PCLS_EXCEEDED"}
    /\ "mem_health_work" \in er.works
    /\ er.uevents = <<>>


\* quiescent: no call on the scheduling policy is in progress
PolIdle == \A t \in Threads : pol.pc[t] = "idle"

\* C32: a policy update overwrites the preemption timeout and the timeslice
\* duration from the engine's properties only while the preemption-disable
\* count is zero; while the count is non-zero it changes neither value
C32_UpdateOnlyAtCountZero ==
    [][\A t \in Threads :
          (pol.pc[t] = "upd_write" /\ pol'.pc[t] = "idle")
              => pol.preempt_disable_count = 0]_vars

\* an update that found the count zero wrote the policy after a disable
\* had set the timeout to 0: the timeout is disabled no more, the count
\* is still held
C32_Witness ==
    /\ pol.guc /\ pol.late /\ PolIdle
    /\ pol.preempt_disable_count = 1 /\ pol.held = 1
    /\ pol.preempt_timeout_ms = pol.props.preempt_timeout_ms

\* C36: with GuC submission and only disables and resets of the preemption
\* timeout (each reset for a disable that has returned), whenever no call is
\* in progress the timeout is 0 if the disable count is positive and the
\* engine's timeout if the count is zero
C36_TimeoutFollowsCount ==
    (pol.guc /\ ~pol.upd /\ PolIdle) =>
        pol.preempt_timeout_ms =
            IF pol.preempt_disable_count > 0
            THEN 0 ELSE pol.props.preempt_timeout_ms

\* a reset that dropped the count to zero set the engine's timeout after a
\* later disable had set 0: the count is positive, the timeout is not 0
C36_Witness ==
    /\ pol.guc /\ ~pol.upd /\ PolIdle
    /\ pol.preempt_disable_count = 1 /\ pol.held = 1
    /\ pol.preempt_timeout_ms # 0


\* the number of places a context takes on the child list of another
OnList(parent, child) ==
    Cardinality({i \in 1..Len(fam.child_list[parent]) :
                    fam.child_list[parent][i] = child})

\* no context is a child and a parent at once, and a context is a child
\* exactly when it is once on the child list of its parallel.parent and
\* on no other list
OneLevelOneParent ==
    \A c \in Ctxs :
        /\ ~(intel_context_is_child(fam, c) /\ intel_context_is_parent(fam, c))
        /\ \A p \in Ctxs :
              OnList(p, c) = IF fam.parent[c] = p THEN 1 ELSE 0

\* C33 as stated: after any sequence of bind operations no context is both
\* a child and a parent, and each child has exactly one parent
C33_AsStated == OneLevelOneParent

\* C33: after any sequence of bind operations that are each given two
\* different contexts of which the function's assertions hold (neither
\* pinned, neither a child, the child not a parent), no context is both a
\* child and a parent and each child has exactly one parent
C33_OneLevelOfNesting == ~fam.misuse => OneLevelOneParent

\* two proper binds: one parent with its two children
C33_Witness ==
    /\ ~fam.misuse /\ ~fam.bug /\ fam.nbind = 2
    /\ fam.parent = [c \in Ctxs |-> IF c = 1 THEN NullCtx ELSE 1]
    /\ fam.child_list[1] = <<2, 3>>
    /\ fam.number_children[1] = 2


\* a call installs its pages only if the range was not invalidated since
\* it sampled the sequence number, and the pages the object holds under
\* the sequence number in force were pinned under that number
NoStalePagesInstalled ==
    /\ \A t \in Threads : up.t[t].inst => ~up.t[t].stale
    /\ (up.pvec # NoPvec /\ up.notifier_seq = up.seq) => up.pvec = up.seq

\* the call found the range invalidated since it sampled the sequence
\* number: nothing installed, its pages released
StaleBacksOut(t) ==
    /\ ~up.t[t].inst
    /\ up.t[t].rel /\ up.t[t].pvec = NoPvec

\* C37 as stated: submit_init never installs pages pinned before an
\* invalidation; if the range was invalidated after the sequence number was
\* sampled it installs nothing, releases its pages and returns -EAGAIN
C37_AsStated ==
    /\ NoStalePagesInstalled
    /\ \A t \in Threads :
          (up.t[t].pc = "done" /\ up.t[t].stale) =>
              StaleBacksOut(t) /\ up.t[t].ret = "EAGAIN"

\* C37: submit_init never installs pages pinned before an invalidation; if
\* the range was invalidated after the sequence number was sampled it
\* installs nothing and releases its pages, and it returns -EAGAIN unless
\* the object's pages are in use and were installed by another call after
\* that invalidation, in which case it returns 0
C37_StalePagesNeverInstalled ==
    /\ NoStalePagesInstalled
    /\ \A t \in Threads :
          (up.t[t].pc = "done" /\ up.t[t].stale) =>
              /\ StaleBacksOut(t)
              /\ up.t[t].ret \in {"0", "EAGAIN"}
              /\ ~up.t[t].busy => up.t[t].ret = "EAGAIN"
              /\ up.t[t].ret = "0" =>
                    \E u \in Threads \ {t} :
                        /\ up.t[u].inst
                        /\ up.t[u].notifier_seq > up.t[t].notifier_seq

\* the range was invalidated between the sample and the check of a call
\* that found no pages in use: it returned -EAGAIN, released its pages and
\* installed nothing
C37_Witness ==
    \E t \in Threads :
        /\ up.t[t].pc = "done" /\ up.t[t].stale /\ ~up.t[t].busy
        /\ up.t[t].ret = "EAGAIN" /\ up.t[t].rel /\ ~up.t[t].inst
        /\ up.pvec = NoPvec /\ up.page_ref = 0
        /\ up.seq = 1 /\ up.t[t].notifier_seq = 0


\* C38: in the userptr creation ioctl the invalidate work of the new object
\* is initialised before the object can be reached by another thread
\* through its handle or its mmu notifier, and the creating thread does not
\* touch the object after dropping the reference of the allocation
C38_WorkInitBeforeReachable ==
    /\ (uc.handle \/ uc.notifier) => uc.work
    /\ ~uc.touched

\* the ioctl has returned the handle: a submission of another thread
\* flushed the work before INIT_WORK, and the handle was closed before
\* INIT_WORK wrote to the object, which was freed by then
C38_Witness ==
    /\ uc.pc = "done" /\ uc.ret = "0"
    /\ uc.touched /\ uc.uaf /\ uc.freed
    /\ \E t \in Threads : uc.flushed[t] = "uninitialised"


\* C39: if intel_irq_install fails to register the handler it returns the
\* error and leaves the driver not enabled, as before the call:
\* intel_irqs_enabled() is false afterwards
C39_FailedInstallNotEnabled ==
    (pm.pc = "idle" /\ pm.last = "install" /\ pm.ret # "0") =>
        ~intel_irqs_enabled(pm)

\* request_irq has failed on the first install: the error is returned, no
\* handler is registered, drm.irq_enabled is reset, and
\* intel_irqs_enabled() is true
C39_Witness ==
    /\ pm.pc = "idle" /\ pm.last = "install" /\ pm.ninst = 1
    /\ pm.ret = "EBUSY"
    /\ ~pm.registered /\ ~pm.drm_irq_enabled
    /\ intel_irqs_enabled(pm)

\* between the return of intel_runtime_pm_disable_interrupts and the next
\* enable: interrupts are disabled, no handler is running, and every
\* handler invoked since has returned IRQ_NONE without touching a register
DisabledAfterReturn ==
    pm.disabled =>
        /\ ~intel_irqs_enabled(pm)
        /\ pm.h = "idle"
        /\ ~pm.late
        /\ pm.rets \subseteq {"IRQ_NONE"}

\* C40 as stated: after intel_runtime_pm_disable_interrupts returns,
\* interrupts are disabled until intel_runtime_pm_enable_interrupts is
\* called
C40_AsStated == DisabledAfterReturn

\* C40: unless quiesce_gpu is set, after
\* intel_runtime_pm_disable_interrupts returns intel_irqs_enabled() is
\* false, no handler invocation is still running, and every later handler
\* invocation returns IRQ_NONE without reading or writing any interrupt
\* register, until intel_runtime_pm_enable_interrupts is called
C40_DisabledUntilEnabled == ~pm.quiesce_gpu => DisabledAfterReturn

\* a handler invoked after the return of the disable was turned away at
\* its entry
C40_Witness ==
    /\ ~pm.quiesce_gpu /\ pm.disabled /\ pm.registered
    /\ pm.pc = "idle" /\ pm.last = "disable"
    /\ pm.rets = {"IRQ_NONE"} /\ pm.hret = "IRQ_NONE"
    /\ pm.h = "idle" /\ ~pm.irqs_enabled

====
